---- MODULE Spec2Model ----
(***************************************************************************)
(* Model of the RunPod state module (src/src/runpod_state.rs): the         *)
(* RunPodState aggregate with its reconciliation planner, and the          *)
(* JsonFileStateStore that persists it; then of two processes saving to    *)
(* the same path at once; then of the orchestrator                         *)
(* (src/src/runpod_orchestrator.rs): wait_for_ready and ensure_ready_pod;  *)
(* then of the retry loops of the starter and of the GraphQL client.       *)
(*                                                                         *)
(* Rust values are encoded as follows.                                     *)
(*   Option<T>      None is <<>>, Some(x) is <<x>>                         *)
(*   String         a tuple of one-character strings                       *)
(*   enum variants  the variant's name as a string                         *)
(*   struct         a record with the struct's field names                 *)
(*   u64            a natural number (no operation of the module can wrap: *)
(*                  the only subtraction is saturating_sub)                *)
(*   HashMap<K, V>  a function from the keys present to their values       *)
(*   Vec<T>         a sequence                                             *)
(* An async fn is cut at its await points: one action runs from the        *)
(* answer to the request it awaited up to the next request it sends.       *)
(***************************************************************************)
EXTENDS Naturals, Sequences, FiniteSets, TLC

VARIABLES
    \* RunPodState (runpod_state.rs:172-187)
    format_version, pod_name, pod_id, target, last_remote, last_updated_ms, policy,
    \* the most recent call: its name and, when it was reconcile, its observation
    \* argument, the value of its local remote_status_opt and the PlannedAction
    \* it returned
    op, observation, remote_status_opt, action,
    \* the target the owner last asked for (new, set_target, or the loaded record)
    caller_target,
    \* the file system under JsonFileStateStore: the content of each path
    \* (None when no file exists there)
    files,
    \* JsonFileStateStore::save in progress: its position, its argument, and the
    \* content the canonical path had when the call began
    save_pc, saving, before,
    \* the most recent store event, whether the most recent save was cut short by
    \* a crash, and the Result the most recent store call returned
    store_op, interrupted, store_result,
    \* two processes in JsonFileStateStore::save on the same path: the inodes of
    \* the file system (their contents, in order of creation), the directory
    \* (the inode each path names, None when it names none), and for each
    \* process its position in save, its open file (inode and offset, None when
    \* it has none) and the Result save returned
    inodes, dir, w_pc, w_fd, w_result,
    \* RunpodOrchestratorConfig: the fields wait_for_ready reads
    ready_timeout_ms, poll_interval_ms, required_ports,
    \* RunpodOrchestrator::wait_for_ready in progress: its pod_id argument, its
    \* position, start.elapsed() now and at the head of the current iteration
    \* of the loop, the HTTP exchange get_pod made in the current iteration, and
    \* the Result it returned
    wait_pod_id, wait_pc, elapsed, began_at, exchange, wait_result,
    \* RunpodOrchestratorConfig: the fields ensure_ready_pod reads
    cfg_pod_name, image_name, reconcile_mode,
    \* RunpodOrchestrator::ensure_ready_pod in progress: its position, the pods
    \* list_pods returned and the pod find_pod_by_name picked (while the call
    \* still holds them), the requests the call has sent so far other than
    \* wait_for_ready's (each with its outcome, "pending" while it has not
    \* been answered), and the Result the call returned
    ensure_pc, listing, existing, requests, ensure_result,
    \* The configuration the retry loops read (RunpodStarterConfig,
    \* RunpodClientConfig)
    retry_max, retry_backoff_ms,
    \* post_with_retry or execute in progress: which of the two, its locals
    \* attempt and backoff, its position, the number of requests it has sent,
    \* the answer to the last one, the last delay it slept, and the Result it
    \* returned
    retry_loop, attempt, backoff, retry_pc, sent, answer, delay, retry_result

state_vars == <<format_version, pod_name, pod_id, target, last_remote, last_updated_ms, policy>>
call_vars == <<op, observation, remote_status_opt, action, caller_target>>
store_vars == <<files, save_pc, saving, before, store_op, interrupted, store_result>>
writers_vars == <<inodes, dir, w_pc, w_fd, w_result>>
wait_cfg_vars == <<ready_timeout_ms, poll_interval_ms, required_ports>>
wait_vars == <<wait_pod_id, wait_pc, elapsed, began_at, exchange, wait_result>>
\* The variables of the components other than the state module run by one
\* process.
ensure_cfg_vars == <<cfg_pod_name, image_name, reconcile_mode>>
ensure_vars == <<ensure_pc, listing, existing, requests, ensure_result>>
retry_cfg_vars == <<retry_max, retry_backoff_ms>>
retry_vars == <<retry_loop, attempt, backoff, retry_pc, sent, answer, delay, retry_result>>
rest_vars ==
    <<writers_vars, wait_cfg_vars, wait_vars, ensure_cfg_vars, ensure_vars,
      retry_cfg_vars, retry_vars>>
\* What the two saving processes leave alone.
beside_writers ==
    <<state_vars, call_vars, store_vars, wait_cfg_vars, wait_vars, ensure_cfg_vars, ensure_vars,
      retry_cfg_vars, retry_vars>>
\* What wait_for_ready leaves alone.
beside_wait ==
    <<state_vars, call_vars, store_vars, writers_vars, wait_cfg_vars, ensure_cfg_vars, ensure_vars,
      retry_cfg_vars, retry_vars>>
\* What ensure_ready_pod leaves alone, wait_for_ready's variables apart.
beside_ensure ==
    <<state_vars, call_vars, store_vars, writers_vars, wait_cfg_vars, ensure_cfg_vars,
      retry_cfg_vars, retry_vars>>
\* What the retry loops leave alone.
beside_retry ==
    <<state_vars, call_vars, store_vars, writers_vars, wait_cfg_vars, wait_vars,
      ensure_cfg_vars, ensure_vars, retry_cfg_vars>>
vars == <<state_vars, call_vars, store_vars, rest_vars>>

-----------------------------------------------------------------------------
\* Bounds of the model.

\* ready_timeout_ms ranges over 0..MaxReadyTimeout, poll_interval_ms over
\* 0..MaxPollInterval, and a get_pod call takes 0..MaxFetchTime
MaxReadyTimeout == 2
MaxPollInterval == 1
MaxFetchTime == 1
\* The longest pod list
MaxPods == 2
\* u32::MAX, the width of attempt and retry_max scaled down: the retry loops
\* compare and saturate at it as they do at 2^32 - 1
U32_MAX == 3
\* now_ms and observed_at_ms range over 0..MaxTime
MaxTime == 2
\* auto_terminate_after_exited_ms ranges over None and Some(0..MaxThreshold)
MaxThreshold == 1

Times == 0..MaxTime
PodIds == {<<"p", "1">>, <<"p", "2">>}
Names == {<<"a">>}

-----------------------------------------------------------------------------
\* Value types.

STATE_FORMAT_VERSION == 1

None == <<>>
Some(x) == <<x>>
IsSome(o) == o # <<>>
Unwrap(o) == o[1]
Option(S) == {None} \cup {Some(x) : x \in S}

PodDesiredStatus == {"Running", "Exited", "Terminated"}
TargetStatus == {"Running", "Exited", "Terminated"}

is_terminal(status) == status = "Terminated"

RemotePodSnapshot ==
    [id : PodIds, name : Names, desired_status : PodDesiredStatus, observed_at_ms : Times]

Found(snapshot) == [kind |-> "Found", snapshot |-> snapshot]
NotFound == [kind |-> "NotFound"]
Unknown == [kind |-> "Unknown"]
RemoteObservation == {Found(s) : s \in RemotePodSnapshot} \cup {NotFound, Unknown}

Noop == [kind |-> "Noop"]
CreatePod(name) == [kind |-> "CreatePod", name |-> name]
StartPod(id) == [kind |-> "StartPod", id |-> id]
StopPod(id) == [kind |-> "StopPod", id |-> id]
TerminatePod(id) == [kind |-> "TerminatePod", id |-> id]

StatePolicy ==
    [reuse_exited_pod : BOOLEAN, auto_terminate_after_exited_ms : Option(0..MaxThreshold)]

StatePolicyDefault == [reuse_exited_pod |-> TRUE, auto_terminate_after_exited_ms |-> None]

\* No reconcile call has been made yet: there is no observation and no action.
NoObservation == [kind |-> "-"]
NoAction == [kind |-> "-"]

\* The subtraction wrapping around below zero, as u16 arithmetic would.
wrapping_sub(a, b) == (a - b) % 65536

\* u64::saturating_sub.
saturating_sub(a, b) == IF a >= b THEN a - b ELSE 0

-----------------------------------------------------------------------------
\* RunPodState::reconcile, step by step.

\* Assimilate with the Unknown arm treating the failed probe as an absence.
Assimilate_UnknownForgets(obs, id, remote) ==
    CASE obs.kind = "Found" ->
            [pod_id |-> Some(obs.snapshot.id),
             last_remote |-> Some(obs.snapshot),
             remote_status_opt |-> Some(obs.snapshot.desired_status)]
      [] obs.kind \in {"NotFound", "Unknown"} ->
            [pod_id |-> id,
             last_remote |-> None,
             remote_status_opt |-> None]

\* Assimilate with the Found arm refreshing a stored snapshot field by field
\* and keeping the time of the first observation.
Assimilate_KeepsFirstObservedAt(obs, id, remote) ==
    CASE obs.kind = "Found" ->
            [pod_id |-> Some(obs.snapshot.id),
             last_remote |->
                IF IsSome(remote)
                THEN Some([obs.snapshot EXCEPT
                              !.observed_at_ms = Unwrap(remote).observed_at_ms])
                ELSE Some(obs.snapshot),
             remote_status_opt |-> Some(obs.snapshot.desired_status)]
      [] obs.kind = "NotFound" ->
            [pod_id |-> id,
             last_remote |-> None,
             remote_status_opt |-> None]
      [] obs.kind = "Unknown" ->
            [pod_id |-> id,
             last_remote |-> remote,
             remote_status_opt |->
                IF IsSome(remote) THEN Some(Unwrap(remote).desired_status) ELSE None]

\* Assimilate with the NotFound arm keeping the stored snapshot.
Assimilate_NotFoundKeepsSnapshot(obs, id, remote) ==
    CASE obs.kind = "Found" ->
            [pod_id |-> Some(obs.snapshot.id),
             last_remote |-> Some(obs.snapshot),
             remote_status_opt |-> Some(obs.snapshot.desired_status)]
      [] obs.kind = "NotFound" ->
            [pod_id |-> id,
             last_remote |-> remote,
             remote_status_opt |-> None]
      [] obs.kind = "Unknown" ->
            [pod_id |-> id,
             last_remote |-> remote,
             remote_status_opt |->
                IF IsSome(remote) THEN Some(Unwrap(remote).desired_status) ELSE None]

\* Assimilate with the Found arm keeping the id the state held.
Assimilate_FoundKeepsPodId(obs, id, remote) ==
    CASE obs.kind = "Found" ->
            [pod_id |-> IF IsSome(id) THEN id ELSE Some(obs.snapshot.id),
             last_remote |-> Some(obs.snapshot),
             remote_status_opt |-> Some(obs.snapshot.desired_status)]
      [] obs.kind = "NotFound" ->
            [pod_id |-> id,
             last_remote |-> None,
             remote_status_opt |-> None]
      [] obs.kind = "Unknown" ->
            [pod_id |-> id,
             last_remote |-> remote,
             remote_status_opt |->
                IF IsSome(remote) THEN Some(Unwrap(remote).desired_status) ELSE None]

\* 1) Assimilate remote observation: the new pod_id, the new last_remote and
\*    the value bound to remote_status_opt.
Assimilate(obs, id, remote) ==
    CASE obs.kind = "Found" ->
            [pod_id |-> Some(obs.snapshot.id),
             last_remote |-> Some(obs.snapshot),
             remote_status_opt |-> Some(obs.snapshot.desired_status)]
      [] obs.kind = "NotFound" ->
            [pod_id |-> id,
             last_remote |-> None,
             remote_status_opt |-> None]
      [] obs.kind = "Unknown" ->
            [pod_id |-> id,
             last_remote |-> remote,
             remote_status_opt |->
                IF IsSome(remote) THEN Some(Unwrap(remote).desired_status) ELSE None]

\* AutoTerminateDue with a strict comparison of the elapsed time.
AutoTerminateDue_Strict(pol, remote, now_ms) ==
    /\ IsSome(pol.auto_terminate_after_exited_ms)
    /\ IsSome(remote)
    /\ Unwrap(remote).desired_status = "Exited"
    /\ saturating_sub(now_ms, Unwrap(remote).observed_at_ms)
          > Unwrap(pol.auto_terminate_after_exited_ms)

\* AutoTerminateDue without the test that the snapshot's status is Exited.
AutoTerminateDue_AnyStatus(pol, remote, now_ms) ==
    /\ IsSome(pol.auto_terminate_after_exited_ms)
    /\ IsSome(remote)
    /\ saturating_sub(now_ms, Unwrap(remote).observed_at_ms)
          >= Unwrap(pol.auto_terminate_after_exited_ms)

\* 2) Apply policy: the condition under which target is forced to Terminated.
AutoTerminateDue(pol, remote, now_ms) ==
    /\ IsSome(pol.auto_terminate_after_exited_ms)
    /\ IsSome(remote)
    /\ Unwrap(remote).desired_status = "Exited"
    /\ saturating_sub(now_ms, Unwrap(remote).observed_at_ms)
          >= Unwrap(pol.auto_terminate_after_exited_ms)

ApplyPolicy(pol, remote, tgt, now_ms) ==
    IF AutoTerminateDue(pol, remote, now_ms) THEN "Terminated" ELSE tgt

\* Decide with the CreatePod arm tried before the Noop arm.
Decide_CreateFirst(tgt, status_opt, id, name, pol) ==
    CASE \/ tgt \in {"Running", "Exited"}
               /\ (status_opt = None \/ status_opt = Some("Terminated"))
         \/ IsSome(status_opt) /\ id = None ->
            CreatePod(name)
      [] OTHER ->
    CASE \/ tgt = "Terminated" /\ (status_opt = None \/ status_opt = Some("Terminated"))
         \/ tgt = "Running" /\ status_opt = Some("Running")
         \/ tgt = "Exited" /\ status_opt = Some("Exited") ->
            Noop
      [] OTHER ->
    CASE tgt = "Running" /\ status_opt = Some("Exited") /\ IsSome(id) ->
            IF pol.reuse_exited_pod THEN StartPod(Unwrap(id)) ELSE CreatePod(name)
      [] tgt = "Exited" /\ status_opt = Some("Running") /\ IsSome(id) ->
            StopPod(Unwrap(id))
      [] tgt = "Terminated" /\ status_opt \in {Some("Running"), Some("Exited")} /\ IsSome(id) ->
            TerminatePod(Unwrap(id))

\* The match with its last arm tried first: a pod that is still there under a
\* Terminated target is terminated whether or not its id is known.
Decide_TerminateFirst(tgt, status_opt, id, name, pol) ==
    CASE tgt = "Terminated" /\ status_opt \in {Some("Running"), Some("Exited")} ->
            TerminatePod(IF IsSome(id) THEN Unwrap(id) ELSE <<>>)
      [] OTHER ->
    CASE \/ tgt = "Terminated" /\ (status_opt = None \/ status_opt = Some("Terminated"))
         \/ tgt = "Running" /\ status_opt = Some("Running")
         \/ tgt = "Exited" /\ status_opt = Some("Exited") ->
            Noop
      [] OTHER ->
    CASE \/ tgt \in {"Running", "Exited"}
               /\ (status_opt = None \/ status_opt = Some("Terminated"))
         \/ IsSome(status_opt) /\ id = None ->
            CreatePod(name)
      [] OTHER ->
    CASE tgt = "Running" /\ status_opt = Some("Exited") /\ IsSome(id) ->
            IF pol.reuse_exited_pod THEN StartPod(Unwrap(id)) ELSE CreatePod(name)
      [] tgt = "Exited" /\ status_opt = Some("Running") /\ IsSome(id) ->
            StopPod(Unwrap(id))

\* The match with a Terminated target asking to terminate every pod whose id
\* is held, the pods already Terminated included.
Decide_TerminatesGonePod(tgt, status_opt, id, name, pol) ==
    CASE \/ tgt = "Terminated" /\ status_opt = None
         \/ tgt = "Terminated" /\ status_opt = Some("Terminated") /\ id = None
         \/ tgt = "Running" /\ status_opt = Some("Running")
         \/ tgt = "Exited" /\ status_opt = Some("Exited") ->
            Noop
      [] OTHER ->
    CASE \/ tgt \in {"Running", "Exited"}
               /\ (status_opt = None \/ status_opt = Some("Terminated"))
         \/ IsSome(status_opt) /\ id = None ->
            CreatePod(name)
      [] OTHER ->
    CASE tgt = "Running" /\ status_opt = Some("Exited") /\ IsSome(id) ->
            IF pol.reuse_exited_pod THEN StartPod(Unwrap(id)) ELSE CreatePod(name)
      [] tgt = "Exited" /\ status_opt = Some("Running") /\ IsSome(id) ->
            StopPod(Unwrap(id))
      [] tgt = "Terminated" /\ IsSome(status_opt) /\ IsSome(id) ->
            TerminatePod(Unwrap(id))

\* 3) Decide action: the match on (self.target, remote_status_opt, self.pod_id),
\*    its arms tried in source order.
Decide(tgt, status_opt, id, name, pol) ==
    CASE \/ tgt = "Terminated" /\ (status_opt = None \/ status_opt = Some("Terminated"))
         \/ tgt = "Running" /\ status_opt = Some("Running")
         \/ tgt = "Exited" /\ status_opt = Some("Exited") ->
            Noop
      [] OTHER ->
    CASE \/ tgt \in {"Running", "Exited"}
               /\ (status_opt = None \/ status_opt = Some("Terminated"))
         \/ IsSome(status_opt) /\ id = None ->
            CreatePod(name)
      [] OTHER ->
    CASE tgt = "Running" /\ status_opt = Some("Exited") /\ IsSome(id) ->
            IF pol.reuse_exited_pod THEN StartPod(Unwrap(id)) ELSE CreatePod(name)
      [] tgt = "Exited" /\ status_opt = Some("Running") /\ IsSome(id) ->
            StopPod(Unwrap(id))
      [] tgt = "Terminated" /\ status_opt \in {Some("Running"), Some("Exited")} /\ IsSome(id) ->
            TerminatePod(Unwrap(id))

-----------------------------------------------------------------------------
\* JSON, as serde_json writes and reads a RunPodState.  A document is the
\* sequence of its tokens: the opening brace, one token per top-level field
\* (key and value), the closing brace.  A write that is cut short leaves a
\* proper prefix of the sequence.

JNull == [j |-> "null"]
JNum(n) == [j |-> "num", v |-> n]
JBool(b) == [j |-> "bool", v |-> b]
JStr(chars) == [j |-> "str", v |-> chars]
JObj(fields) == [j |-> "obj", v |-> fields]

TOpen == [t |-> "{"]
TClose == [t |-> "}"]
TField(key, value) == [t |-> "field", k |-> key, v |-> value]

\* #[serde(rename_all = "SCREAMING_SNAKE_CASE")] on the two status enums.
SCREAMING_SNAKE_CASE(variant) ==
    CASE variant = "Running" -> <<"R", "U", "N", "N", "I", "N", "G">>
      [] variant = "Exited" -> <<"E", "X", "I", "T", "E", "D">>
      [] variant = "Terminated" -> <<"T", "E", "R", "M", "I", "N", "A", "T", "E", "D">>

\* The variant a JSON value names, as Some(variant); None when it names none.
VariantOf(value) ==
    IF value.j # "str" THEN None
    ELSE LET hits == {x \in PodDesiredStatus : SCREAMING_SNAKE_CASE(x) = value.v}
         IN  IF hits = {} THEN None ELSE Some(CHOOSE x \in hits : TRUE)

JSnapshot(s) ==
    JObj([id |-> JStr(s.id),
          name |-> JStr(s.name),
          desired_status |-> JStr(SCREAMING_SNAKE_CASE(s.desired_status)),
          observed_at_ms |-> JNum(s.observed_at_ms)])

\* Serialize for Option<T>: None is null, Some(x) is x's value.
JOptionStr(o) == IF IsSome(o) THEN JStr(Unwrap(o)) ELSE JNull
JOptionNum(o) == IF IsSome(o) THEN JNum(Unwrap(o)) ELSE JNull
JOptionSnapshot(o) == IF IsSome(o) THEN JSnapshot(Unwrap(o)) ELSE JNull

JPolicy(pol) ==
    JObj([reuse_exited_pod |-> JBool(pol.reuse_exited_pod),
          auto_terminate_after_exited_ms |->
              JOptionNum(pol.auto_terminate_after_exited_ms)])

\* to_vec_pretty writing the policy's default in place of the state's policy.
to_vec_pretty_DefaultPolicy(st) ==
    << TOpen,
       TField("format_version", JNum(st.format_version)),
       TField("pod_name", JStr(st.pod_name)),
       TField("pod_id", JOptionStr(st.pod_id)),
       TField("target", JStr(SCREAMING_SNAKE_CASE(st.target))),
       TField("last_remote", JOptionSnapshot(st.last_remote)),
       TField("last_updated_ms", JNum(st.last_updated_ms)),
       TField("policy", JPolicy(StatePolicyDefault)),
       TClose >>

\* serde_json::to_vec_pretty(state): the fields in declaration order.
to_vec_pretty(st) ==
    << TOpen,
       TField("format_version", JNum(st.format_version)),
       TField("pod_name", JStr(st.pod_name)),
       TField("pod_id", JOptionStr(st.pod_id)),
       TField("target", JStr(SCREAMING_SNAKE_CASE(st.target))),
       TField("last_remote", JOptionSnapshot(st.last_remote)),
       TField("last_updated_ms", JNum(st.last_updated_ms)),
       TField("policy", JPolicy(st.policy)),
       TClose >>

SerdeError == [kind |-> "Err", error |-> "Serde"]
IoError == [kind |-> "Err", error |-> "Io"]
InvalidState == [kind |-> "Err", error |-> "InvalidState"]
Ok(x) == [kind |-> "Ok", value |-> x]

\* The values of the top-level field `key` in a framed document.
FieldValues(bytes, key) ==
    {bytes[i].v : i \in {n \in 2..(Len(bytes) - 1) : bytes[n].k = key}}

HasType(value, type) == value.j = type

\* Deserialize for Option<T>: null is None, anything else must be a T.
OptionWellTyped(values, type) ==
    \A x \in values : HasType(x, "null") \/ HasType(x, type)

SnapshotWellTyped(x) ==
    /\ HasType(x, "obj")
    /\ DOMAIN x.v = {"id", "name", "desired_status", "observed_at_ms"}
    /\ HasType(x.v.id, "str")
    /\ HasType(x.v.name, "str")
    /\ IsSome(VariantOf(x.v.desired_status))
    /\ HasType(x.v.observed_at_ms, "num")

PolicyWellTyped(x) ==
    /\ HasType(x, "obj")
    /\ DOMAIN x.v = {"reuse_exited_pod", "auto_terminate_after_exited_ms"}
    /\ HasType(x.v.reuse_exited_pod, "bool")
    /\ \/ HasType(x.v.auto_terminate_after_exited_ms, "null")
       \/ HasType(x.v.auto_terminate_after_exited_ms, "num")

\* Deserialize for Option<T> of a field: None when the field is missing or
\* null.
Present(values) == values # {} /\ \A x \in values : ~HasType(x, "null")

One(values) == CHOOSE x \in values : TRUE

FromJStr(x) == x.v
FromJNum(x) == x.v

FromJOptionStr(values) == IF Present(values) THEN Some(FromJStr(One(values))) ELSE None
FromJOptionNum(values) == IF Present(values) THEN Some(FromJNum(One(values))) ELSE None

FromJSnapshot(x) ==
    [id |-> x.v.id.v,
     name |-> x.v.name.v,
     desired_status |-> Unwrap(VariantOf(x.v.desired_status)),
     observed_at_ms |-> x.v.observed_at_ms.v]

FromJPolicy(x) ==
    [reuse_exited_pod |-> x.v.reuse_exited_pod.v,
     auto_terminate_after_exited_ms |->
         FromJOptionNum({x.v.auto_terminate_after_exited_ms})]

FromJOptionSnapshot(values) ==
    IF Present(values) THEN Some(FromJSnapshot(One(values))) ELSE None

\* serde_json::from_slice::<RunPodState>(bytes): the document must be complete
\* (both braces), every field must occur at most once, the five fields that
\* are not Options must occur, and every value must have its field's type.
from_slice(bytes) ==
    LET framed == /\ Len(bytes) >= 2
                  /\ bytes[1] = TOpen
                  /\ bytes[Len(bytes)] = TClose
                  /\ \A i \in 2..(Len(bytes) - 1) : bytes[i].t = "field"
        keys == {"format_version", "pod_name", "pod_id", "target", "last_remote",
                 "last_updated_ms", "policy"}
        val(k) == FieldValues(bytes, k)
        count(k) == Cardinality({n \in 2..(Len(bytes) - 1) : bytes[n].k = k})
    IN  IF ~framed THEN SerdeError
        ELSE IF \E k \in keys : count(k) > 1 THEN SerdeError
        ELSE IF \E k \in {"format_version", "pod_name", "target", "last_updated_ms",
                          "policy"} : count(k) = 0 THEN SerdeError
        ELSE IF ~(/\ HasType(One(val("format_version")), "num")
                  /\ HasType(One(val("pod_name")), "str")
                  /\ OptionWellTyped(val("pod_id"), "str")
                  /\ IsSome(VariantOf(One(val("target"))))
                  /\ \A x \in val("last_remote") : HasType(x, "null") \/ SnapshotWellTyped(x)
                  /\ HasType(One(val("last_updated_ms")), "num")
                  /\ PolicyWellTyped(One(val("policy")))) THEN SerdeError
        ELSE Ok([format_version |-> One(val("format_version")).v,
                 pod_name |-> One(val("pod_name")).v,
                 pod_id |-> FromJOptionStr(val("pod_id")),
                 target |-> Unwrap(VariantOf(One(val("target")))),
                 last_remote |-> FromJOptionSnapshot(val("last_remote")),
                 last_updated_ms |-> One(val("last_updated_ms")).v,
                 policy |-> FromJPolicy(One(val("policy")))])

\* str::trim: the string without its leading and trailing blanks.
RECURSIVE trim_start(_)
trim_start(chars) ==
    IF chars # <<>> /\ Head(chars) = " " THEN trim_start(Tail(chars)) ELSE chars

RECURSIVE trim_end(_)
trim_end(chars) ==
    IF chars # <<>> /\ chars[Len(chars)] = " "
    THEN trim_end(SubSeq(chars, 1, Len(chars) - 1)) ELSE chars

trim(chars) == trim_end(trim_start(chars))

-----------------------------------------------------------------------------
\* JsonFileStateStore.

\* self.path, and the sibling the new content is written to first.
Path == <<"s">>

tmp_name_SamePath(path) == path

tmp_name(path) == <<".">> \o path \o <<".", "t", "m", "p">>

Paths == {Path, tmp_name(Path)}

\* The records save is called with: RunPodState values as the planner's
\* operations leave them (one under a policy of the owner's), and three that
\* fail save's validation.
Record(version, name, id, tgt, remote, at_ms) ==
    [format_version |-> version, pod_name |-> name, pod_id |-> id, target |-> tgt,
     last_remote |-> remote, last_updated_ms |-> at_ms, policy |-> StatePolicyDefault]

SaveArguments ==
    { Record(STATE_FORMAT_VERSION, <<"a">>, None, "Running", None, 0),
      Record(STATE_FORMAT_VERSION, <<"a">>, Some(<<"p", "1">>), "Exited",
             Some([id |-> <<"p", "1">>, name |-> <<"a">>, desired_status |-> "Running",
                   observed_at_ms |-> 1]), 1),
      Record(STATE_FORMAT_VERSION, <<"a">>, Some(<<"p", "2">>), "Terminated", None, 2),
      [Record(STATE_FORMAT_VERSION, <<"a">>, Some(<<"p", "2">>), "Running",
              Some([id |-> <<"p", "2">>, name |-> <<"a">>, desired_status |-> "Exited",
                    observed_at_ms |-> 2]), 2)
          EXCEPT !.policy = [reuse_exited_pod |-> FALSE,
                             auto_terminate_after_exited_ms |-> Some(1)]],
      Record(STATE_FORMAT_VERSION + 1, <<"a">>, None, "Running", None, 0),
      Record(STATE_FORMAT_VERSION, <<" ">>, None, "Running", None, 0),
      Record(STATE_FORMAT_VERSION, <<>>, None, "Running", None, 0) }

\* save's validation with is_empty applied to the name as given.
Valid_NoTrim(st) == st.format_version = STATE_FORMAT_VERSION /\ st.pod_name # <<>>

Valid(st) == st.format_version = STATE_FORMAT_VERSION /\ trim(st.pod_name) # <<>>

NoCall == [kind |-> "-"]

\* The store is not in use (the planner's specifications).
StoreUnused ==
    /\ files = [p \in Paths |-> None]
    /\ save_pc = "idle"
    /\ saving = None
    /\ before = None
    /\ store_op = "none"
    /\ interrupted = FALSE
    /\ store_result = NoCall

\* The processes that save to the same path.
Writers == {1, 2}

\* No second process is at work.
WritersUnused ==
    /\ inodes = <<>>
    /\ dir = [p \in Paths |-> None]
    /\ w_pc = [w \in Writers |-> "idle"]
    /\ w_fd = [w \in Writers |-> None]
    /\ w_result = [w \in Writers |-> NoCall]

\* No exchange with the API has taken place.
NoExchange == [kind |-> "-"]

\* wait_for_ready is not in use: a configuration, and no call.
WaitUnused ==
    /\ ready_timeout_ms = 0
    /\ poll_interval_ms = 0
    /\ required_ports = <<>>
    /\ wait_pod_id = <<>>
    /\ wait_pc = "idle"
    /\ elapsed = 0
    /\ began_at = 0
    /\ exchange = NoExchange
    /\ wait_result = NoCall

\* ensure_ready_pod is not in use: a configuration, and no call.
EnsureUnused ==
    /\ cfg_pod_name = <<"a">>
    /\ image_name = <<"i">>
    /\ reconcile_mode = "Reuse"
    /\ ensure_pc = "idle"
    /\ listing = <<>>
    /\ existing = None
    /\ requests = <<>>
    /\ ensure_result = NoCall

\* The retry loops are not in use: the default configuration, and no call.
RetryUnused ==
    /\ retry_max = 3
    /\ retry_backoff_ms = 250
    /\ retry_loop = "post_with_retry"
    /\ attempt = 0
    /\ backoff = 0
    /\ retry_pc = "idle"
    /\ sent = 0
    /\ answer = NoExchange
    /\ delay = None
    /\ retry_result = NoCall

\* The other components are not in use.
RestUnused == WritersUnused /\ WaitUnused /\ EnsureUnused /\ RetryUnused

\* File-system calls.
create(fs, p) == [fs EXCEPT ![p] = Some(<<>>)]
append(fs, p, bytes) == [fs EXCEPT ![p] = Some(Unwrap(fs[p]) \o bytes)]
remove_file(fs, p) == [fs EXCEPT ![p] = None]
rename(fs, from, to) == IF from = to THEN fs ELSE [fs EXCEPT ![to] = fs[from], ![from] = None]

\* load with is_empty applied to the name as stored.
load_NoTrim(fs) ==
    IF fs[Path] = None THEN Ok(None)
    ELSE LET parsed == from_slice(Unwrap(fs[Path]))
         IN  IF parsed.kind = "Err" THEN parsed
             ELSE IF parsed.value.format_version # STATE_FORMAT_VERSION THEN InvalidState
             ELSE IF parsed.value.pod_name = <<>> THEN InvalidState
             ELSE Ok(Some(parsed.value))

\* JsonFileStateStore::load.
load(fs) ==
    IF fs[Path] = None THEN Ok(None)
    ELSE LET parsed == from_slice(Unwrap(fs[Path]))
         IN  IF parsed.kind = "Err" THEN parsed
             ELSE IF parsed.value.format_version # STATE_FORMAT_VERSION THEN InvalidState
             ELSE IF trim(parsed.value.pod_name) = <<>> THEN InvalidState
             ELSE Ok(Some(parsed.value))

Load ==
    /\ save_pc = "idle"
    /\ store_op' = "load"
    /\ store_result' = load(files)
    /\ UNCHANGED <<files, save_pc, saving, before, interrupted>>
    /\ UNCHANGED <<state_vars, call_vars, rest_vars>>

\* save returns: the call is over, with this Result.
Return(result) ==
    /\ save_pc' = "idle"
    /\ store_op' = "save"
    /\ store_result' = result

\* save, lines 420-428: the two validations and ensure_parent_dir.
SaveBegin ==
    /\ save_pc = "idle"
    /\ \E st \in SaveArguments :
          /\ saving' = Some(st)
          /\ before' = files[Path]
          /\ interrupted' = FALSE
          /\ \/ ~Valid(st) /\ Return(InvalidState)
             \/ Valid(st) /\ Return(IoError)
             \/ /\ Valid(st)
                /\ save_pc' = "create"
                /\ store_op' = "save"
                /\ store_result' = NoCall
    /\ UNCHANGED files
    /\ UNCHANGED <<state_vars, call_vars, rest_vars>>

\* fs::File::create(&tmp): the file exists and is empty, or the call fails.
SaveCreate ==
    /\ save_pc = "create"
    /\ \/ /\ files' = create(files, tmp_name(Path))
          /\ save_pc' = "write"
          /\ UNCHANGED <<store_op, store_result>>
       \/ Return(IoError) /\ UNCHANGED files
    /\ UNCHANGED <<saving, before, interrupted>>
    /\ UNCHANGED <<state_vars, call_vars, rest_vars>>

\* f.write_all(&json): one write of some of the bytes still to write, or a
\* failure.
SaveWrite ==
    /\ save_pc = "write"
    /\ LET json == to_vec_pretty(Unwrap(saving))
           done == Len(Unwrap(files[tmp_name(Path)]))
       IN  \/ \E n \in 1..(Len(json) - done) :
                /\ files' = append(files, tmp_name(Path), SubSeq(json, done + 1, done + n))
                /\ save_pc' = IF done + n = Len(json) THEN "sync" ELSE "write"
                /\ UNCHANGED <<store_op, store_result>>
           \/ Return(IoError) /\ UNCHANGED files
    /\ UNCHANGED <<saving, before, interrupted>>
    /\ UNCHANGED <<state_vars, call_vars, rest_vars>>

\* f.sync_all().
SaveSync ==
    /\ save_pc = "sync"
    /\ \/ save_pc' = "replace" /\ UNCHANGED <<store_op, store_result>>
       \/ Return(IoError)
    /\ UNCHANGED <<files, saving, before, interrupted>>
    /\ UNCHANGED <<state_vars, call_vars, rest_vars>>

\* if self.path.exists() { let _ = fs::remove_file(&self.path); }
SaveRemove ==
    /\ save_pc = "replace"
    /\ \/ files[Path] = None /\ UNCHANGED files
       \/ files[Path] # None /\ files' = remove_file(files, Path)
       \/ files[Path] # None /\ UNCHANGED files
    /\ save_pc' = "rename"
    /\ UNCHANGED <<saving, before, interrupted, store_op, store_result>>
    /\ UNCHANGED <<state_vars, call_vars, rest_vars>>

\* fs::rename(&tmp, &self.path)?; Ok(())
SaveRename ==
    /\ save_pc = "rename"
    /\ \/ files' = rename(files, tmp_name(Path), Path) /\ Return(Ok(None))
       \/ UNCHANGED files /\ Return(IoError)
    /\ UNCHANGED <<saving, before, interrupted>>
    /\ UNCHANGED <<state_vars, call_vars, rest_vars>>

\* The process dies in the middle of save; the files stay as they are.
Crash ==
    /\ save_pc # "idle"
    /\ save_pc' = "idle"
    /\ store_op' = "crash"
    /\ interrupted' = TRUE
    /\ store_result' = NoCall
    /\ UNCHANGED <<files, saving, before>>
    /\ UNCHANGED <<state_vars, call_vars, rest_vars>>

\* The store of a process that starts: no file yet, or a file an earlier save
\* completed.
StoreInit ==
    /\ \E st \in {x \in SaveArguments : Valid(x)} :
          files \in { [p \in Paths |-> None],
                      [p \in Paths |-> IF p = Path THEN Some(to_vec_pretty(st)) ELSE None] }
    /\ save_pc = "idle"
    /\ saving = None
    /\ before = None
    /\ store_op = "none"
    /\ interrupted = FALSE
    /\ store_result = NoCall

-----------------------------------------------------------------------------
\* The operations of RunPodState.

\* The call just made was not reconcile: it took no observation and returned
\* no action.
NoReconcile == observation = NoObservation /\ remote_status_opt = None /\ action = NoAction

\* RunPodState::new(pod_name, now_ms); policy is a public field the owner may
\* set before the first call.
New ==
    /\ format_version = STATE_FORMAT_VERSION
    /\ pod_name \in Names
    /\ pod_id = None
    /\ target = "Running"
    /\ last_remote = None
    /\ last_updated_ms \in Times
    /\ policy \in StatePolicy
    /\ op = "new"
    /\ NoReconcile
    /\ caller_target = target

\* set_target forgetting the pod as it goes.
set_target_ForgetsPod(t, now_ms) ==
    /\ target' = t
    /\ last_updated_ms' = now_ms
    /\ op' = "set_target"
    /\ caller_target' = t
    /\ pod_id' = None
    /\ UNCHANGED <<format_version, pod_name, last_remote, policy>>
    /\ observation' = NoObservation /\ remote_status_opt' = None /\ action' = NoAction

set_target(t, now_ms) ==
    /\ target' = t
    /\ last_updated_ms' = now_ms
    /\ op' = "set_target"
    /\ caller_target' = t
    /\ UNCHANGED <<format_version, pod_name, pod_id, last_remote, policy>>
    /\ observation' = NoObservation /\ remote_status_opt' = None /\ action' = NoAction

\* reconcile deciding the action on the target as it stood before the policy
\* was applied.
reconcile_DecideBeforePolicy(obs, now_ms) ==
    LET a == Assimilate(obs, pod_id, last_remote)
        t == ApplyPolicy(policy, a.last_remote, target, now_ms)
    IN  /\ last_updated_ms' = now_ms
        /\ pod_id' = a.pod_id
        /\ last_remote' = a.last_remote
        /\ target' = t
        /\ remote_status_opt' = a.remote_status_opt
        /\ action' = Decide(target, a.remote_status_opt, a.pod_id, pod_name, policy)
        /\ observation' = obs
        /\ op' = "reconcile"
        /\ UNCHANGED <<format_version, pod_name, policy, caller_target>>

reconcile(obs, now_ms) ==
    LET a == Assimilate(obs, pod_id, last_remote)
        t == ApplyPolicy(policy, a.last_remote, target, now_ms)
    IN  /\ last_updated_ms' = now_ms
        /\ pod_id' = a.pod_id
        /\ last_remote' = a.last_remote
        /\ target' = t
        /\ remote_status_opt' = a.remote_status_opt
        /\ action' = Decide(t, a.remote_status_opt, a.pod_id, pod_name, policy)
        /\ observation' = obs
        /\ op' = "reconcile"
        /\ UNCHANGED <<format_version, pod_name, policy, caller_target>>

\* apply_created putting target back to what the owner last asked for.
apply_created_RevertsTarget(id, now_ms) ==
    /\ pod_id' = Some(id)
    /\ last_updated_ms' = now_ms
    /\ target' = caller_target
    /\ op' = "apply_created"
    /\ UNCHANGED <<format_version, pod_name, last_remote, policy, caller_target>>
    /\ observation' = NoObservation /\ remote_status_opt' = None /\ action' = NoAction

apply_created(id, now_ms) ==
    /\ pod_id' = Some(id)
    /\ last_updated_ms' = now_ms
    /\ op' = "apply_created"
    /\ UNCHANGED <<format_version, pod_name, target, last_remote, policy, caller_target>>
    /\ observation' = NoObservation /\ remote_status_opt' = None /\ action' = NoAction

\* apply_terminated forgetting the id alone, the stored snapshot kept.
apply_terminated_KeepsSnapshot(now_ms) ==
    /\ pod_id' = None
    /\ last_updated_ms' = now_ms
    /\ op' = "apply_terminated"
    /\ UNCHANGED <<format_version, pod_name, target, last_remote, policy, caller_target>>
    /\ observation' = NoObservation /\ remote_status_opt' = None /\ action' = NoAction

apply_terminated(now_ms) ==
    /\ pod_id' = None
    /\ last_remote' = None
    /\ last_updated_ms' = now_ms
    /\ op' = "apply_terminated"
    /\ UNCHANGED <<format_version, pod_name, target, policy, caller_target>>
    /\ observation' = NoObservation /\ remote_status_opt' = None /\ action' = NoAction

SetTarget ==
    /\ \E t \in TargetStatus, now_ms \in Times : set_target(t, now_ms)
    /\ UNCHANGED <<store_vars, rest_vars>>

Reconcile ==
    /\ \E obs \in RemoteObservation, now_ms \in Times : reconcile(obs, now_ms)
    /\ UNCHANGED <<store_vars, rest_vars>>

ApplyCreated ==
    /\ \E id \in PodIds, now_ms \in Times : apply_created(id, now_ms)
    /\ UNCHANGED <<store_vars, rest_vars>>

ApplyTerminated ==
    /\ \E now_ms \in Times : apply_terminated(now_ms)
    /\ UNCHANGED <<store_vars, rest_vars>>

Init == New /\ StoreUnused /\ RestUnused

\* The state JsonFileStateStore::load hands to the owner: whatever record the
\* file holds, provided it passes load's two validations. Nothing relates its
\* pod_id to its last_remote.
Loaded ==
    /\ format_version = STATE_FORMAT_VERSION
    /\ pod_name \in Names
    /\ pod_id \in Option(PodIds)
    /\ target \in TargetStatus
    /\ last_remote \in Option(RemotePodSnapshot)
    /\ last_updated_ms \in Times
    /\ policy \in StatePolicy
    /\ op = "load"
    /\ NoReconcile
    /\ caller_target = target
    /\ StoreUnused
    /\ RestUnused

Next ==
    \/ SetTarget
    \/ Reconcile
    \/ ApplyCreated
    \/ ApplyTerminated

Spec == Init /\ [][Next]_vars

\* The same operations, started from a loaded record.
SpecLoaded == Loaded /\ [][Next]_vars

\* The state right after apply_terminated was called on a state whose target
\* is Terminated: whatever the state held before, pod_id and last_remote are
\* cleared and the rest is as it was.
AfterTerminated ==
    /\ format_version = STATE_FORMAT_VERSION
    /\ pod_name \in Names
    /\ pod_id = None
    /\ target = "Terminated"
    /\ last_remote = None
    /\ last_updated_ms \in Times
    /\ policy \in StatePolicy
    /\ op = "apply_terminated"
    /\ NoReconcile
    /\ caller_target = target
    /\ StoreUnused
    /\ RestUnused

\* Every call but set_target.
NextKeepTarget ==
    \/ Reconcile
    \/ ApplyCreated
    \/ ApplyTerminated

\* What follows apply_terminated while the owner leaves the target alone.
SpecTerminated == AfterTerminated /\ [][NextKeepTarget]_vars

\* The store alone: saves, step by step, crashes and loads.
InitStore ==
    /\ New
    /\ last_updated_ms = 0
    /\ policy = StatePolicyDefault
    /\ StoreInit
    /\ RestUnused

NextStore ==
    \/ Load
    \/ SaveBegin
    \/ SaveCreate
    \/ SaveWrite
    \/ SaveSync
    \/ SaveRemove
    \/ SaveRename
    \/ Crash

SpecStore == InitStore /\ [][NextStore]_vars

\* The store over a file of any origin: absent, a complete record (valid or
\* not: another version of the program, or an edit by hand, wrote it), or a
\* record cut short.
InitStoreAny ==
    /\ New
    /\ last_updated_ms = 0
    /\ policy = StatePolicyDefault
    /\ \E st \in SaveArguments :
          files \in { [p \in Paths |-> None],
                      [p \in Paths |-> IF p = Path THEN Some(to_vec_pretty(st)) ELSE None],
                      [p \in Paths |-> IF p = Path
                                       THEN Some(SubSeq(to_vec_pretty(st), 1, 4))
                                       ELSE None] }
    /\ save_pc = "idle"
    /\ saving = None
    /\ before = None
    /\ store_op = "none"
    /\ interrupted = FALSE
    /\ store_result = NoCall
    /\ RestUnused

SpecStoreAny == InitStoreAny /\ [][NextStore]_vars

-----------------------------------------------------------------------------
\* Two processes, each with its own JsonFileStateStore on the same path, call
\* save at the same time.  Their file-system calls interleave in any order.
\* Both compute the same temporary name, and a process that has opened the
\* temporary file keeps writing to that inode at its own offset whatever the
\* other process does to the name or to the content in the meantime.

\* The state each process saves.
WriterState(w) ==
    IF w = 1
    THEN Record(STATE_FORMAT_VERSION, <<"a">>, Some(<<"p", "1">>), "Exited",
                Some([id |-> <<"p", "1">>, name |-> <<"a">>, desired_status |-> "Running",
                      observed_at_ms |-> 1]), 1)
    ELSE Record(STATE_FORMAT_VERSION, <<"a">>, Some(<<"p", "2">>), "Terminated", None, 2)

\* Bytes no process wrote: the zeros that fill the gap when a write lands
\* beyond the end of a file.
Hole == [t |-> "0"]

\* write(2) of bytes at offset off of a file holding content.
write_at(content, off, bytes) ==
    LET len == IF Len(content) > off + Len(bytes) THEN Len(content) ELSE off + Len(bytes)
    IN  [i \in 1..len |->
            IF i > off /\ i <= off + Len(bytes) THEN bytes[i - off]
            ELSE IF i <= Len(content) THEN content[i]
            ELSE Hole]

\* The canonical path names no file, or a file an earlier save completed.
InitWriters ==
    /\ New
    /\ last_updated_ms = 0
    /\ policy = StatePolicyDefault
    /\ StoreUnused
    /\ \/ inodes = <<>> /\ dir = [p \in Paths |-> None]
       \/ /\ inodes = <<to_vec_pretty(Record(STATE_FORMAT_VERSION, <<"a">>, None,
                                               "Running", None, 0))>>
          /\ dir = [p \in Paths |-> IF p = Path THEN Some(1) ELSE None]
    /\ w_pc = [w \in Writers |-> "idle"]
    /\ w_fd = [w \in Writers |-> None]
    /\ w_result = [w \in Writers |-> NoCall]
    /\ WaitUnused
    /\ EnsureUnused
    /\ RetryUnused

\* save, lines 420-441: the state is valid, the parent directory exists.
WriterBegin(w) ==
    /\ w_pc[w] = "idle"
    /\ Valid(WriterState(w))
    /\ w_pc' = [w_pc EXCEPT ![w] = "create"]
    /\ UNCHANGED <<inodes, dir, w_fd, w_result>>
    /\ UNCHANGED beside_writers

\* fs::File::create(&tmp): a new empty file under the temporary name, or the
\* file that is there, truncated; the process holds it open at offset 0.
WriterCreate(w) ==
    /\ w_pc[w] = "create"
    /\ LET tmp == tmp_name(Path)
       IN  IF dir[tmp] = None
           THEN /\ inodes' = Append(inodes, <<>>)
                /\ dir' = [dir EXCEPT ![tmp] = Some(Len(inodes) + 1)]
                /\ w_fd' = [w_fd EXCEPT ![w] = Some([inode |-> Len(inodes) + 1, offset |-> 0])]
           ELSE /\ inodes' = [inodes EXCEPT ![Unwrap(dir[tmp])] = <<>>]
                /\ dir' = dir
                /\ w_fd' = [w_fd EXCEPT ![w] = Some([inode |-> Unwrap(dir[tmp]), offset |-> 0])]
    /\ w_pc' = [w_pc EXCEPT ![w] = "write"]
    /\ UNCHANGED w_result
    /\ UNCHANGED beside_writers

\* f.write_all(&json): one write(2) of some of the bytes still to write, at
\* the offset of the open file.
WriterWrite(w) ==
    /\ w_pc[w] = "write"
    /\ LET json == to_vec_pretty(WriterState(w))
           fd == Unwrap(w_fd[w])
       IN  \E n \in 1..(Len(json) - fd.offset) :
              /\ inodes' = [inodes EXCEPT ![fd.inode] =
                                write_at(@, fd.offset, SubSeq(json, fd.offset + 1, fd.offset + n))]
              /\ w_fd' = [w_fd EXCEPT ![w] = Some([fd EXCEPT !.offset = @ + n])]
              /\ w_pc' = [w_pc EXCEPT ![w] =
                              IF fd.offset + n = Len(json) THEN "sync" ELSE "write"]
    /\ UNCHANGED <<dir, w_result>>
    /\ UNCHANGED beside_writers

\* f.sync_all(), and the file is closed at the end of the block.
WriterSync(w) ==
    /\ w_pc[w] = "sync"
    /\ w_pc' = [w_pc EXCEPT ![w] = "replace"]
    /\ w_fd' = [w_fd EXCEPT ![w] = None]
    /\ UNCHANGED <<inodes, dir, w_result>>
    /\ UNCHANGED beside_writers

\* if self.path.exists() { let _ = fs::remove_file(&self.path); }
WriterRemove(w) ==
    /\ w_pc[w] = "replace"
    /\ dir' = [dir EXCEPT ![Path] = None]
    /\ w_pc' = [w_pc EXCEPT ![w] = "rename"]
    /\ UNCHANGED <<inodes, w_fd, w_result>>
    /\ UNCHANGED beside_writers

\* fs::rename(&tmp, &self.path)?; Ok(()): fails when the temporary name is
\* gone.
WriterRename(w) ==
    /\ w_pc[w] = "rename"
    /\ LET tmp == tmp_name(Path)
       IN  IF dir[tmp] = None
           THEN /\ dir' = dir
                /\ w_result' = [w_result EXCEPT ![w] = IoError]
           ELSE /\ dir' = [dir EXCEPT ![Path] = dir[tmp], ![tmp] = None]
                /\ w_result' = [w_result EXCEPT ![w] = Ok(None)]
    /\ w_pc' = [w_pc EXCEPT ![w] = "returned"]
    /\ UNCHANGED <<inodes, w_fd>>
    /\ UNCHANGED beside_writers

NextWriters ==
    \E w \in Writers :
        \/ WriterBegin(w)
        \/ WriterCreate(w)
        \/ WriterWrite(w)
        \/ WriterSync(w)
        \/ WriterRemove(w)
        \/ WriterRename(w)

SpecWriters == InitWriters /\ [][NextWriters]_vars

-----------------------------------------------------------------------------
\* runpod_orchestrator.rs: values.

\* The status strings of the REST API.
RUNNING == SCREAMING_SNAKE_CASE("Running")
EXITED == SCREAMING_SNAKE_CASE("Exited")
TERMINATED == SCREAMING_SNAKE_CASE("Terminated")

\* OrchestratorError.
Http == [kind |-> "Err", error |-> "Http"]
Json == [kind |-> "Err", error |-> "Json"]
Api(status) == [kind |-> "Err", error |-> "Api", status |-> status]
Provision == [kind |-> "Err", error |-> "Provision"]
PodNotFound(id) == [kind |-> "Err", error |-> "PodNotFound", id |-> id]
Timeout == [kind |-> "Err", error |-> "Timeout"]

\* One HTTP exchange: send() failed (reqwest::Error), or a response came back
\* with its status and body.
TransportError == [kind |-> "error"]
Response(status, body) == [kind |-> "response", status |-> status, body |-> body]

\* StatusCode::is_success.
is_success(status) == status >= 200 /\ status <= 299

\* A response body: the JSON documents it holds.  JsonOf(x) is the JSON of the
\* value x, NotJson a body that is no JSON document (an HTML error page, an
\* empty body).
JsonOf(x) == <<x>>
NotJson == <<>>

\* serde_json::from_str(&body): the value of the one document, or an error.
from_str(body) == IF Len(body) # 1 THEN Json ELSE Ok(body[1])

\* Option::unwrap_or_default on an Option<String>.
unwrap_or_default(o) == IF IsSome(o) THEN Unwrap(o) ELSE <<>>

Digits == <<"0", "1", "2", "3", "4", "5", "6", "7", "8", "9">>
IsDigit(c) == \E d \in 1..10 : Digits[d] = c
DigitValue(c) == (CHOOSE d \in 1..10 : Digits[d] = c) - 1

RECURSIVE decimal(_)
decimal(chars) ==
    IF chars = <<>> THEN 0
    ELSE 10 * decimal(SubSeq(chars, 1, Len(chars) - 1)) + DigitValue(chars[Len(chars)])

\* str::parse::<u16>: an optional '+', then decimal digits, at most u16::MAX.
parse_u16(chars) ==
    LET digits == IF chars # <<>> /\ chars[1] = "+" THEN Tail(chars) ELSE chars
    IN  IF digits = <<>> \/ \E i \in 1..Len(digits) : ~IsDigit(digits[i]) THEN None
        ELSE IF decimal(digits) > 65535 THEN None
        ELSE Some(decimal(digits))

\* port_spec.split('/').next(): the text before the first '/'.
RECURSIVE split_next(_)
split_next(chars) ==
    IF chars = <<>> \/ Head(chars) = "/" THEN <<>>
    ELSE <<Head(chars)>> \o split_next(Tail(chars))

\* The port-mapping keys and the required-port specifications of the model.
Key22 == <<"2", "2">>
Key8888 == <<"8", "8", "8", "8">>
KeyNoNumber == <<"x">>
Spec22Tcp == Key22 \o <<"/", "t", "c", "p">>
Spec8888Http == Key8888 \o <<"/", "h", "t", "t", "p">>
SpecNoNumber == <<"s", "s", "h">>

PortMappingsValues ==
    { None,
      Some(<<>>),
      Some([k \in {Key22} |-> 7]),
      Some([k \in {Key22, Key8888, KeyNoNumber} |->
               IF k = Key22 THEN 7 ELSE IF k = Key8888 THEN 8 ELSE 9]) }

\* PodDetails: the fields wait_for_ready reads.
PodDetails ==
    [id : PodIds,
     name : Option(Names),
     desiredStatus : Option({RUNNING, EXITED}),
     publicIp : Option({<<>>, <<"9">>}),
     portMappings : PortMappingsValues]

\* What a GET /pods/{id} can come to.
GetPodExchanges ==
    {TransportError, Response(404, NotJson), Response(500, NotJson), Response(200, NotJson)}
        \cup {Response(200, JsonOf(pod)) : pod \in PodDetails}

RequiredPortsValues == { <<Spec22Tcp>>, <<Spec22Tcp, Spec8888Http>>, <<SpecNoNumber>> }

\* get_pod with a 404 handled like every other error status.
get_pod_NotFoundIsApiError(x) ==
    IF x.kind = "error" THEN Http
    ELSE IF ~is_success(x.status) THEN Api(x.status)
    ELSE IF from_str(x.body).kind = "Err" THEN Json
    ELSE Ok(Some(from_str(x.body).value))

\* RunpodOrchestrator::get_pod, as a function of the exchange it makes.
get_pod(x) ==
    IF x.kind = "error" THEN Http
    ELSE IF x.status = 404 THEN Ok(None)
    ELSE IF ~is_success(x.status) THEN Api(x.status)
    ELSE IF from_str(x.body).kind = "Err" THEN Json
    ELSE Ok(Some(from_str(x.body).value))

\* The public IP check accepting an empty address.
public_ip_AllowsEmpty(pod) == pod.publicIp

\* let public_ip = match &pod.publicIp { Some(ip) if !ip.is_empty() => ... }:
\* Some(ip) when the match binds public_ip, None when it sleeps.
public_ip(pod) ==
    IF IsSome(pod.publicIp) /\ Unwrap(pod.publicIp) # <<>> THEN pod.publicIp ELSE None

\* The HashMap<u16, u16> built from pod.portMappings: the entries whose key
\* parses as a u16.
port_mappings(pod) ==
    IF pod.portMappings = None THEN <<>>
    ELSE LET m == Unwrap(pod.portMappings)
             keys == {k \in DOMAIN m : IsSome(parse_u16(k))}
         IN  [port \in {Unwrap(parse_u16(k)) : k \in keys} |->
                 m[CHOOSE k \in keys : Unwrap(parse_u16(k)) = port]]

\* self.cfg.required_ports.iter().all(|port_spec| ...)
has_required_ports(specs, mappings) ==
    \A i \in 1..Len(specs) :
        /\ IsSome(parse_u16(split_next(specs[i])))
        /\ Unwrap(parse_u16(split_next(specs[i]))) \in DOMAIN mappings

\* The PodLease wait_for_ready builds from a pod it found ready.
PodLease(pod) ==
    [id |-> pod.id,
     name |-> unwrap_or_default(pod.name),
     public_ip |-> Unwrap(public_ip(pod)),
     port_mappings |-> port_mappings(pod),
     desired_status |-> unwrap_or_default(pod.desiredStatus)]

\* start.elapsed() after d more milliseconds.  Every value above
\* MaxReadyTimeout compares with the timeout like MaxReadyTimeout + 1.
Later(t, d) == IF t + d > MaxReadyTimeout THEN MaxReadyTimeout + 1 ELSE t + d

-----------------------------------------------------------------------------
\* RunpodOrchestrator::wait_for_ready.

\* wait_for_ready returns: the call is over, with this Result.
WaitReturn(result) ==
    /\ wait_pc' = "returned"
    /\ wait_result' = result

\* let start = Instant::now(); ...
WaitBegin(id) ==
    /\ wait_pc = "idle"
    /\ wait_pod_id' = id
    /\ wait_pc' = "head"
    /\ elapsed' = 0
    /\ UNCHANGED <<began_at, exchange, wait_result>>

\* The head of the loop: if start.elapsed() > timeout { return Err(Timeout) }
WaitHead ==
    /\ wait_pc = "head"
    /\ began_at' = elapsed
    /\ exchange' = NoExchange
    /\ IF elapsed > ready_timeout_ms
       THEN WaitReturn(Timeout)
       ELSE wait_pc' = "fetch" /\ UNCHANGED wait_result
    /\ UNCHANGED <<wait_pod_id, elapsed>>

\* self.get_pod(pod_id).await? and what the iteration makes of the answer.
WaitFetch ==
    /\ wait_pc = "fetch"
    /\ \E x \in GetPodExchanges, d \in 0..MaxFetchTime :
          /\ exchange' = x
          /\ elapsed' = Later(elapsed, d)
          /\ LET got == get_pod(x)
             IN  IF got.kind = "Err" THEN WaitReturn(got)
                 ELSE IF got.value = None THEN WaitReturn(PodNotFound(wait_pod_id))
                 ELSE LET pod == Unwrap(got.value)
                      IN  IF /\ pod.desiredStatus = Some(RUNNING)
                             /\ IsSome(public_ip(pod))
                             /\ has_required_ports(required_ports, port_mappings(pod))
                          THEN WaitReturn(Ok(PodLease(pod)))
                          ELSE wait_pc' = "sleep" /\ UNCHANGED wait_result
    /\ UNCHANGED <<wait_pod_id, began_at>>

\* tokio::time::sleep(poll_interval).await; continue;
WaitSleep ==
    /\ wait_pc = "sleep"
    /\ elapsed' = Later(elapsed, poll_interval_ms)
    /\ wait_pc' = "head"
    /\ UNCHANGED <<wait_pod_id, began_at, exchange, wait_result>>

\* A configuration, and wait_for_ready not yet called.
WaitConfigured ==
    /\ ready_timeout_ms \in 0..MaxReadyTimeout
    /\ poll_interval_ms \in 0..MaxPollInterval
    /\ required_ports \in RequiredPortsValues
    /\ wait_pod_id = <<>>
    /\ wait_pc = "idle"
    /\ elapsed = 0
    /\ began_at = 0
    /\ exchange = NoExchange
    /\ wait_result = NoCall

InitWait ==
    /\ New
    /\ last_updated_ms = 0
    /\ policy = StatePolicyDefault
    /\ StoreUnused
    /\ WritersUnused
    /\ WaitConfigured
    /\ EnsureUnused
    /\ RetryUnused

WaitForReady ==
    /\ \E id \in PodIds : WaitBegin(id)
    /\ UNCHANGED beside_wait

WaitLoopHead == WaitHead /\ UNCHANGED beside_wait

WaitGetPod == WaitFetch /\ UNCHANGED beside_wait

WaitPollInterval == WaitSleep /\ UNCHANGED beside_wait

NextWait ==
    \/ WaitForReady
    \/ WaitLoopHead
    \/ WaitGetPod
    \/ WaitPollInterval

\* wait_for_ready called on its own.
SpecWait == InitWait /\ [][NextWait]_vars

(***************************************************************************)
(* RunpodOrchestrator::ensure_ready_pod                                    *)
(***************************************************************************)

\* ReconcileMode
Reuse == "Reuse"
Recreate == "Recreate"
ReconcileMode == {Reuse, Recreate}

\* Image names: the configured one and another one.
ImageNames == {<<"i">>, <<"j">>}

\* PodInfo: the fields ensure_ready_pod reads.  The name is the configured
\* one, another one, or absent.
PodInfo ==
    [id : PodIds,
     name : Option(Names \cup {<<"b">>}),
     desiredStatus : Option({RUNNING, EXITED, TERMINATED}),
     imageName : {Some(i) : i \in ImageNames}]

\* The pod lists GET /pods can answer with: the ids of a list are distinct.
Listings ==
    {l \in UNION {[1..n -> PodInfo] : n \in 0..MaxPods} :
        \A i, j \in 1..Len(l) : i # j => l[i].id # l[j].id}

\* What a GET /pods can come to.
ListPodsExchanges ==
    {TransportError, Response(500, NotJson), Response(200, NotJson)}
        \cup {Response(200, JsonOf(l)) : l \in Listings}

\* What a POST /pods/{id}/start or a DELETE /pods/{id} can come to.
CommandExchanges == {TransportError, Response(500, NotJson), Response(200, NotJson)}

\* The id the API gives a pod it creates: none that a listed pod has.
CreatedPodIds == {<<"p", "3">>}

\* CreatedPod: the field ensure_ready_pod reads.
CreatedPod == [id : CreatedPodIds]

\* What the provisioner's POST /pods can come to.
CreatePodExchanges ==
    {TransportError, Response(500, NotJson), Response(200, NotJson)}
        \cup {Response(200, JsonOf(pod)) : pod \in CreatedPod}

list_pods(x) ==
    IF x.kind = "error" THEN Http
    ELSE IF ~is_success(x.status) THEN Api(x.status)
    ELSE from_str(x.body)

\* pods.into_iter().find(|p| p.name.as_deref() == Some(name))
find(pods, name) ==
    LET named == {i \in 1..Len(pods) : pods[i].name = Some(name)}
    IN  IF named = {} THEN None
        ELSE Some(pods[CHOOSE i \in named : \A j \in named : i <= j])

is_compatible(pod, image) ==
    /\ pod.imageName = Some(image)
    /\ pod.desiredStatus # Some(TERMINATED)

\* start_pod with the answer's status ignored.
start_pod_IgnoresStatus(x) ==
    IF x.kind = "error" THEN Http ELSE Ok(None)

\* start_pod and terminate_pod make the same thing of an answer.
start_pod(x) ==
    IF x.kind = "error" THEN Http
    ELSE IF ~is_success(x.status) THEN Api(x.status)
    ELSE Ok(None)

terminate_pod(x) == start_pod(x)

\* RunpodProvisioner::create_pod
create_pod(x) ==
    IF x.kind = "error" THEN Http
    ELSE IF ~is_success(x.status) THEN Api(x.status)
    ELSE from_str(x.body)

\* create_new_pod, its configuration read and its client built.
create_new_pod(x) ==
    IF create_pod(x).kind = "Err" THEN Provision ELSE create_pod(x)

\* The arms, with a pod recreated only when it is not compatible.
match_RecreatesIncompatibleOnly(found, image, mode) ==
    IF IsSome(found) /\ is_compatible(Unwrap(found), image) /\ mode = Reuse
    THEN "reuse"
    ELSE IF IsSome(found) /\ mode = Recreate /\ ~is_compatible(Unwrap(found), image)
    THEN "recreate"
    ELSE "create"

\* The arm of match existing { ... } that is taken.
match_existing(found, image, mode) ==
    IF IsSome(found) /\ is_compatible(Unwrap(found), image) /\ mode = Reuse
    THEN "reuse"
    ELSE IF IsSome(found) /\ mode = Recreate
    THEN "recreate"
    ELSE "create"

\* A request, sent and not yet answered.
Request(verb, id) == [verb |-> verb, id |-> id, outcome |-> "pending"]

Send(verb, id) == requests' = Append(requests, Request(verb, id))

\* What became of a request: "ok" is a 2xx answer, with a body its caller
\* can read where the caller reads it.
OutcomeOf(verb, x) ==
    IF /\ x.kind = "response"
       /\ is_success(x.status)
       /\ (verb \in {"list", "create"} => from_str(x.body).kind = "Ok")
    THEN "ok"
    ELSE "failed"

\* The requests, the one that was awaited now answered.
Answered(x) ==
    [requests EXCEPT ![Len(requests)].outcome = OutcomeOf(requests[Len(requests)].verb, x)]

Answer(x) == requests' = Answered(x)

\* The request that was awaited is answered, and the next one is sent.
AnswerAndSend(x, verb, id) == requests' = Append(Answered(x), Request(verb, id))

\* The values of the call that are gone once it has gone on.
Forget ==
    /\ listing' = <<>>
    /\ existing' = None

EnsureReturn(result) ==
    /\ ensure_pc' = "returned"
    /\ ensure_result' = result
    /\ UNCHANGED wait_vars

\* self.wait_for_ready(&pod_id) is called.
EnsureWait(id) ==
    /\ ensure_pc' = "waiting"
    /\ WaitBegin(id)
    /\ UNCHANGED ensure_result

\* ensure_ready_pod is called: find_pod_by_name sends GET /pods.
EnsureBegin ==
    /\ ensure_pc = "idle"
    /\ wait_pc = "idle"
    /\ Send("list", None)
    /\ ensure_pc' = "listing"
    /\ UNCHANGED <<listing, existing, ensure_result, wait_vars>>

\* The list is answered: find_pod_by_name(..).await? and the match, up to
\* the request its arm sends.
EnsureListed ==
    /\ ensure_pc = "listing"
    /\ \E x \in ListPodsExchanges :
          LET pods == list_pods(x)
          IN  IF pods.kind = "Err"
              THEN /\ Answer(x)
                   /\ UNCHANGED <<listing, existing>>
                   /\ EnsureReturn(pods)
              ELSE LET found == find(pods.value, cfg_pod_name)
                       arm == match_existing(found, image_name, reconcile_mode)
                   IN  /\ listing' = pods.value
                       /\ existing' = found
                       /\ IF arm = "reuse" /\ Unwrap(found).desiredStatus # Some(EXITED)
                          THEN /\ Answer(x)
                               /\ EnsureWait(Unwrap(found).id)
                          ELSE /\ UNCHANGED <<ensure_result, wait_vars>>
                               /\ CASE arm = "reuse" ->
                                         /\ AnswerAndSend(x, "start", Some(Unwrap(found).id))
                                         /\ ensure_pc' = "starting"
                                    [] arm = "recreate" ->
                                         /\ AnswerAndSend(x, "terminate", Some(Unwrap(found).id))
                                         /\ ensure_pc' = "terminating"
                                    [] OTHER ->
                                         /\ AnswerAndSend(x, "create", None)
                                         /\ ensure_pc' = "creating"

\* self.start_pod(&pod.id).await?; pod.id
EnsureStarted ==
    /\ ensure_pc = "starting"
    /\ Forget
    /\ \E x \in CommandExchanges :
          /\ Answer(x)
          /\ IF start_pod(x).kind = "Err"
             THEN EnsureReturn(start_pod(x))
             ELSE EnsureWait(Unwrap(existing).id)

\* let _ = self.terminate_pod(&pod.id).await; then create_new_pod() sends
\* its request.
EnsureTerminated ==
    /\ ensure_pc = "terminating"
    /\ Forget
    /\ \E x \in CommandExchanges :
          AnswerAndSend(x, "create", None)
    /\ ensure_pc' = "creating"
    /\ UNCHANGED <<ensure_result, wait_vars>>

\* self.create_new_pod().await?.id: the request is answered, and the log
\* keeps the id of the pod it created.
EnsureCreated ==
    /\ ensure_pc = "creating"
    /\ Forget
    /\ \E x \in CreatePodExchanges :
          IF create_new_pod(x).kind = "Err"
          THEN /\ Answer(x)
               /\ EnsureReturn(create_new_pod(x))
          ELSE /\ requests' =
                      [Answered(x) EXCEPT
                          ![Len(requests)].id = Some(create_new_pod(x).value.id)]
               /\ EnsureWait(create_new_pod(x).value.id)

\* The head of wait_for_ready's loop, within ensure_ready_pod.
EnsureWaitHead ==
    /\ ensure_pc = "waiting"
    /\ WaitHead
    /\ Forget
    /\ UNCHANGED <<ensure_pc, requests, ensure_result>>

\* self.wait_for_ready(&pod_id).await has returned, and its Result is
\* ensure_ready_pod's.
EnsureWaited ==
    /\ ensure_pc = "waiting"
    /\ wait_pc = "returned"
    /\ ensure_pc' = "returned"
    /\ ensure_result' = wait_result
    /\ UNCHANGED <<listing, existing, requests, wait_vars>>

\* A configuration of the orchestrator, and no call yet.
InitEnsure ==
    /\ New
    /\ last_updated_ms = 0
    /\ policy = StatePolicyDefault
    /\ StoreUnused
    /\ WritersUnused
    /\ ready_timeout_ms = 1
    /\ poll_interval_ms = 1
    /\ required_ports = <<Spec22Tcp>>
    /\ wait_pod_id = <<>>
    /\ wait_pc = "idle"
    /\ elapsed = 0
    /\ began_at = 0
    /\ exchange = NoExchange
    /\ wait_result = NoCall
    /\ cfg_pod_name \in Names
    /\ image_name = <<"i">>
    /\ reconcile_mode \in ReconcileMode
    /\ ensure_pc = "idle"
    /\ listing = <<>>
    /\ existing = None
    /\ requests = <<>>
    /\ ensure_result = NoCall
    /\ RetryUnused

CallEnsureReadyPod == EnsureBegin /\ UNCHANGED beside_ensure

AwaitFindPodByName == EnsureListed /\ UNCHANGED beside_ensure

AwaitStartPod == EnsureStarted /\ UNCHANGED beside_ensure

AwaitTerminatePod == EnsureTerminated /\ UNCHANGED beside_ensure

AwaitCreateNewPod == EnsureCreated /\ UNCHANGED beside_ensure

AwaitWaitForReady == EnsureWaited /\ UNCHANGED beside_ensure

EnsureLoopHead == EnsureWaitHead /\ UNCHANGED beside_ensure

NextEnsure ==
    \/ CallEnsureReadyPod
    \/ AwaitFindPodByName
    \/ AwaitStartPod
    \/ AwaitTerminatePod
    \/ AwaitCreateNewPod
    \/ EnsureLoopHead
    \/ WaitGetPod
    \/ WaitPollInterval
    \/ AwaitWaitForReady

\* One call of ensure_ready_pod.
SpecEnsure == InitEnsure /\ [][NextEnsure]_vars

(***************************************************************************)
(* The retry loops: RunpodStarter::post_with_retry (runpod_starter.rs) and *)
(* RunpodClient::execute (runpod_client.rs)                                *)
(***************************************************************************)

RetryLoops == {"post_with_retry", "execute"}

\* u32::saturating_add, the width scaled down to U32_MAX.
saturating_add(a, b) == IF a + b > U32_MAX THEN U32_MAX ELSE a + b

\* The configured backoffs, in milliseconds.
RetryBackoffValues == {0, 250, 3000, 6000, 12000}

\* The transport errors of send(), by what reqwest says of them.
SendErrors ==
    {[kind |-> "error", is |-> c] : c \in {"timeout", "connect", "request", "redirect"}}

\* GraphQLResponse: data and errors.
GraphQLResponses ==
    { [data |-> Some(<<"d">>), errors |-> None],
      [data |-> Some(<<"d">>), errors |-> Some(<<>>)],
      [data |-> None, errors |-> Some(<<"e">>)] }

RetryStatuses == {200, 400, 408, 409, 425, 429, 500, 502, 503, 504}

\* What a POST of either loop can come to.
RetryExchanges ==
    SendErrors
        \cup {Response(s, NotJson) : s \in RetryStatuses}
        \cup {Response(200, JsonOf(r)) : r \in GraphQLResponses}

is_retryable_status(status) ==
    status \in {408, 409, 425, 429, 500, 502, 503, 504}

\* e.is_timeout() || e.is_connect() || e.is_request()
is_retryable_reqwest(e) == e.is \in {"timeout", "connect", "request"}

\* next_backoff: doubled, capped at 5 seconds in the starter and at 10 in the
\* client.
next_backoff(loop, current) ==
    LET cap == IF loop = "post_with_retry" THEN 5000 ELSE 10000
    IN  IF 2 * current > cap THEN cap ELSE 2 * current

\* RunpodError and RunpodClientError, as far as the loops return them.
GraphQL == [kind |-> "Err", error |-> "GraphQL"]

\* What the match on send_res comes to for the answer x, at this attempt:
\* a Result to return, or "continue".
match_send_res(loop, x, n, max) ==
    IF x.kind = "error"
    THEN IF n <= max /\ is_retryable_reqwest(x) THEN [kind |-> "continue"] ELSE Http
    ELSE IF ~is_success(x.status)
    THEN IF n <= max /\ is_retryable_status(x.status)
         THEN [kind |-> "continue"]
         ELSE Api(x.status)
    ELSE IF loop = "post_with_retry" THEN Ok(x.body)
    ELSE IF from_str(x.body).kind = "Err" THEN Json
    ELSE IF /\ IsSome(from_str(x.body).value.errors)
            /\ Unwrap(from_str(x.body).value.errors) # <<>>
    THEN GraphQL
    ELSE from_str(x.body)

\* let mut attempt: u32 = 0; let mut backoff = ...retry_backoff_ms
RetryBegin(loop) ==
    /\ retry_pc = "idle"
    /\ retry_loop' = loop
    /\ attempt' = 0
    /\ backoff' = retry_backoff_ms
    /\ retry_pc' = "send"
    /\ UNCHANGED <<sent, answer, delay, retry_result>>

\* One turn of the loop, up to the sleep or the return.  sent counts the
\* requests, and stops counting at U32_MAX + 2.
RetrySend ==
    /\ retry_pc = "send"
    /\ attempt' = saturating_add(attempt, 1)
    /\ sent' = IF sent > U32_MAX + 1 THEN sent ELSE sent + 1
    /\ \E x \in RetryExchanges :
          /\ answer' = x
          /\ LET r == match_send_res(retry_loop, x, attempt', retry_max)
             IN  IF r.kind = "continue"
                 THEN retry_pc' = "sleep" /\ UNCHANGED retry_result
                 ELSE retry_pc' = "returned" /\ retry_result' = r
    /\ UNCHANGED <<retry_loop, backoff, delay>>

\* tokio::time::sleep(backoff).await; backoff = next_backoff(backoff); continue;
RetrySleep ==
    /\ retry_pc = "sleep"
    /\ delay' = Some(backoff)
    /\ backoff' = next_backoff(retry_loop, backoff)
    /\ retry_pc' = "send"
    /\ UNCHANGED <<retry_loop, attempt, sent, answer, retry_result>>

\* A configuration (RUNPOD_HTTP_RETRY_MAX is any u32), and no call yet.
InitRetry ==
    /\ New
    /\ last_updated_ms = 0
    /\ policy = StatePolicyDefault
    /\ StoreUnused
    /\ WritersUnused
    /\ WaitUnused
    /\ EnsureUnused
    /\ retry_max \in 0..U32_MAX
    /\ retry_backoff_ms \in RetryBackoffValues
    /\ retry_loop = "post_with_retry"
    /\ attempt = 0
    /\ backoff = 0
    /\ retry_pc = "idle"
    /\ sent = 0
    /\ answer = NoExchange
    /\ delay = None
    /\ retry_result = NoCall

PostWithRetry == RetryBegin("post_with_retry") /\ UNCHANGED beside_retry

Execute == RetryBegin("execute") /\ UNCHANGED beside_retry

RetryAttempt == RetrySend /\ UNCHANGED beside_retry

RetryBackoff == RetrySleep /\ UNCHANGED beside_retry

NextRetry ==
    \/ PostWithRetry
    \/ Execute
    \/ RetryAttempt
    \/ RetryBackoff

\* One call of post_with_retry or of execute.
SpecRetry == InitRetry /\ [][NextRetry]_vars

-----------------------------------------------------------------------------
\* A pod that stays Exited, under an owner that keeps calling reconcile with
\* increasing now_ms and never calls set_target.

\* The record the owner starts from: the pod is known, last seen Exited at 0,
\* and auto_terminate_after_exited_ms is set.
InitLive ==
    /\ Loaded
    /\ IsSome(pod_id)
    /\ target \in {"Running", "Exited"}
    /\ last_remote = Some([id |-> Unwrap(pod_id), name |-> pod_name,
                           desired_status |-> "Exited", observed_at_ms |-> 0])
    /\ last_updated_ms = 0
    /\ IsSome(policy.auto_terminate_after_exited_ms)

\* What a probe that reaches the pod at now_ms delivers.
ExitedSnapshot(now_ms) ==
    [id |-> Unwrap(pod_id), name |-> pod_name, desired_status |-> "Exited",
     observed_at_ms |-> now_ms]

ProbeFound ==
    /\ \E now_ms \in Times :
          /\ now_ms > last_updated_ms
          /\ reconcile(Found(ExitedSnapshot(now_ms)), now_ms)
    /\ UNCHANGED <<store_vars, rest_vars>>

ProbeUnknown ==
    /\ \E now_ms \in Times :
          /\ now_ms > last_updated_ms
          /\ reconcile(Unknown, now_ms)
    /\ UNCHANGED <<store_vars, rest_vars>>

\* Time goes on past MaxTime: every timestamp is moved back by one (0 stays 0),
\* so that the next now_ms fits.  reconcile reads its timestamps only in
\* saturating_sub(now_ms, observed_at_ms) >= threshold, and a snapshot that
\* stays at 0 is MaxTime old, which no threshold of the model exceeds: the
\* shift changes the outcome of no later call.
Earlier(t) == saturating_sub(t, 1)

EarlierSnapshot(s) == [s EXCEPT !.observed_at_ms = Earlier(@)]

ClockShift ==
    /\ last_updated_ms = MaxTime
    /\ last_updated_ms' = Earlier(last_updated_ms)
    /\ last_remote' = IF IsSome(last_remote) THEN Some(EarlierSnapshot(Unwrap(last_remote)))
                      ELSE None
    /\ observation' = IF observation.kind = "Found"
                      THEN Found(EarlierSnapshot(observation.snapshot)) ELSE observation
    /\ UNCHANGED <<format_version, pod_name, pod_id, target, policy>>
    /\ UNCHANGED <<op, remote_status_opt, action, caller_target>>
    /\ UNCHANGED <<store_vars, rest_vars>>

NextLive ==
    \/ ProbeFound
    \/ ProbeUnknown
    \/ ClockShift

\* The owner keeps calling: some step is always taken.
SpecLive == InitLive /\ [][NextLive]_vars /\ WF_vars(NextLive)

-----------------------------------------------------------------------------
\* The decision table of the specification (section 4.2, step 3), row by row.

RowMatches(i, tgt, status_opt, id) ==
    CASE i = 1 -> tgt = "Terminated" /\ status_opt \in {None, Some("Terminated")}
      [] i = 2 -> tgt = "Running" /\ status_opt = Some("Running")
      [] i = 3 -> tgt = "Exited" /\ status_opt = Some("Exited")
      [] i = 4 -> tgt \in {"Running", "Exited"} /\ status_opt \in {None, Some("Terminated")}
      [] i = 5 -> IsSome(status_opt) /\ id = None
      [] i = 6 -> tgt = "Running" /\ status_opt = Some("Exited") /\ IsSome(id)
      [] i = 7 -> tgt = "Exited" /\ status_opt = Some("Running") /\ IsSome(id)
      [] i = 8 -> tgt = "Terminated" /\ status_opt \in {Some("Running"), Some("Exited")}
                     /\ IsSome(id)

RowAction(i, id, name, reuse) ==
    CASE i \in {1, 2, 3} -> Noop
      [] i \in {4, 5} -> CreatePod(name)
      [] i = 6 -> IF reuse THEN StartPod(Unwrap(id)) ELSE CreatePod(name)
      [] i = 7 -> StopPod(Unwrap(id))
      [] i = 8 -> TerminatePod(Unwrap(id))

TableRows == 1..8

IsFirstRow(i, tgt, status_opt, id) ==
    /\ RowMatches(i, tgt, status_opt, id)
    /\ \A j \in TableRows : j < i => ~RowMatches(j, tgt, status_opt, id)

\* Elapsed time as reconcile computes it: never negative.
Elapsed(now_ms, at_ms) == IF now_ms > at_ms THEN now_ms - at_ms ELSE 0

-----------------------------------------------------------------------------
\* Claims.

\* C1: the action reconcile returns is the action of the first matching row of
\* the 8-row decision table, read on the target after the policy override, the
\* effective status and pod_id after the observation was assimilated.
C1_ActionIsFirstMatchingRow ==
    op = "reconcile" =>
        \E i \in TableRows :
            /\ IsFirstRow(i, target, remote_status_opt, pod_id)
            /\ action = RowAction(i, pod_id, pod_name, policy.reuse_exited_pod)

\* C1 witness: the defensive row (a status is known, no id) is the first that
\* matches, and reconcile has returned its CreatePod.
C1_Witness ==
    /\ op = "reconcile"
    /\ IsFirstRow(5, target, remote_status_opt, pod_id)
    /\ action = CreatePod(pod_name)

\* C2 (as claimed): from a state reached through new, reconcile, apply_created,
\* apply_terminated and set_target (none of which touches the policy new()
\* installs) with pod_id Some and target Running, reconcile(Unknown, now_ms)
\* never returns CreatePod.
C2_UnknownNeverCreates ==
    [][(/\ policy = StatePolicyDefault
        /\ IsSome(pod_id)
        /\ target = "Running"
        /\ op' = "reconcile"
        /\ observation' = Unknown) => action'.kind # "CreatePod"]_vars

\* C3: reconcile(Unknown, now_ms) leaves pod_id and last_remote as they were and
\* decides on the status of the stored snapshot (absent when there is none).
C3_UnknownKeepsSnapshot ==
    [][(op' = "reconcile" /\ observation' = Unknown) =>
        LET stored == IF IsSome(last_remote)
                      THEN Some(Unwrap(last_remote).desired_status) ELSE None
        IN  /\ pod_id' = pod_id
            /\ last_remote' = last_remote
            /\ remote_status_opt' = stored
            /\ \E i \in TableRows :
                  /\ IsFirstRow(i, target', stored, pod_id)
                  /\ action' = RowAction(i, pod_id, pod_name, policy.reuse_exited_pod)]_vars

\* C3 witness: an Unknown observation was decided on a stored Exited snapshot.
C3_Witness ==
    /\ op = "reconcile"
    /\ observation = Unknown
    /\ IsSome(last_remote)
    /\ remote_status_opt = Some("Exited")
    /\ action.kind = "StartPod"

\* C4 (as claimed): after reconcile(NotFound, now_ms) both pod_id and last_remote
\* are None.
C4_NotFoundClearsBoth ==
    (op = "reconcile" /\ observation = NotFound) => (pod_id = None /\ last_remote = None)

\* The state held by the record the canonical path had when save began, and
\* whether a load result is that state or the state being saved.
IsPreviousRecord(st) == IsSome(before) /\ Unwrap(before) = to_vec_pretty(st)
IsNewRecord(st) == IsSome(saving) /\ Unwrap(saving) = st
LoadedAfterCrash == store_op = "load" /\ interrupted

\* C5: a load made after save was cut short by a crash, at whatever step, never
\* returns a parse error and never returns a state other than the complete
\* previous record or the complete new record.
C5_CrashNeverExposesPartialRecord ==
    LoadedAfterCrash =>
        /\ store_result.kind = "Err" => store_result.error # "Serde"
        /\ (store_result.kind = "Ok" /\ IsSome(store_result.value)) =>
              \/ IsPreviousRecord(Unwrap(store_result.value))
              \/ IsNewRecord(Unwrap(store_result.value))

\* C5 witness: the crash came while the temporary file was partly written;
\* the load that followed returned the previous record, not the one being saved.
C5_Witness ==
    /\ LoadedAfterCrash
    /\ IsSome(files[tmp_name(Path)])
    /\ Len(Unwrap(files[tmp_name(Path)])) \in 1..(Len(to_vec_pretty(Unwrap(saving))) - 1)
    /\ store_result.kind = "Ok"
    /\ IsSome(store_result.value)
    /\ IsPreviousRecord(Unwrap(store_result.value))
    /\ ~IsNewRecord(Unwrap(store_result.value))

\* C6 (as claimed): when a record existed at the canonical path and save was
\* cut short, load afterwards returns Some(previous state) or Some(new state),
\* never None.
C6_CrashKeepsARecord ==
    (LoadedAfterCrash /\ IsSome(before)) =>
        /\ store_result.kind = "Ok"
        /\ IsSome(store_result.value)
        /\ \/ IsPreviousRecord(Unwrap(store_result.value))
           \/ IsNewRecord(Unwrap(store_result.value))

\* C10 (as claimed): while the pod stays Exited and the owner keeps calling
\* reconcile with increasing now_ms, some call eventually returns TerminatePod
\* for the pod, whichever of Found (stamped at probe time) and Unknown the
\* probe delivers.
C10_EventuallyTerminatePod ==
    <>(op = "reconcile" /\ action = TerminatePod(Unwrap(pod_id)))

\* A reconcile(Found(s)) that found target and status equal has just returned
\* Noop: the steady state of C7, with s the observation to repeat.
SteadyAfterFound ==
    /\ op = "reconcile"
    /\ observation.kind = "Found"
    /\ action = Noop
    /\ \/ target = "Running" /\ observation.snapshot.desired_status = "Running"
       \/ target = "Exited" /\ observation.snapshot.desired_status = "Exited"

RepeatsObservation == op' = "reconcile" /\ observation' = observation

\* C7 (as claimed): in a steady state every repetition of reconcile with the same
\* Found observation returns Noop and leaves pod_id and last_remote unchanged,
\* for any now_ms and any policy.
C7_SteadyRepeatIsNoop ==
    [][(SteadyAfterFound /\ RepeatsObservation) =>
        (action' = Noop /\ pod_id' = pod_id /\ last_remote' = last_remote)]_vars

\* C7 (amended): the repetition leaves pod_id and last_remote unchanged; it
\* returns Noop unless the snapshot is Exited and the auto-terminate threshold
\* has elapsed at now_ms, and then it sets target Terminated and returns
\* TerminatePod for the snapshot's id.
C7_SteadyRepeatIsNoopUnlessDue ==
    [][(SteadyAfterFound /\ RepeatsObservation) =>
        LET s == observation.snapshot
            d == policy.auto_terminate_after_exited_ms
            due == /\ IsSome(d)
                   /\ s.desired_status = "Exited"
                   /\ Elapsed(last_updated_ms', s.observed_at_ms) >= Unwrap(d)
        IN  /\ pod_id' = pod_id
            /\ last_remote' = last_remote
            /\ ~due => (action' = Noop /\ target' = target)
            /\ due => (action' = TerminatePod(s.id) /\ target' = "Terminated")]_vars

\* C7 witness: the owner asked for Exited, the pod was found Exited with the
\* auto-terminate threshold elapsed, and the call returned TerminatePod.
C7_Witness ==
    /\ op = "reconcile"
    /\ observation.kind = "Found"
    /\ observation.snapshot.desired_status = "Exited"
    /\ caller_target = "Exited"
    /\ policy.auto_terminate_after_exited_ms = Some(1)
    /\ last_updated_ms = observation.snapshot.observed_at_ms + 1
    /\ target = "Terminated"
    /\ action = TerminatePod(observation.snapshot.id)

\* C8: with auto_terminate_after_exited_ms = Some(d), a stored snapshot that is
\* Exited and at least d old at now_ms makes reconcile set target Terminated.
C8_OverrideSetsTerminated ==
    (/\ op = "reconcile"
     /\ IsSome(policy.auto_terminate_after_exited_ms)
     /\ IsSome(last_remote)
     /\ Unwrap(last_remote).desired_status = "Exited"
     /\ last_updated_ms >= Unwrap(last_remote).observed_at_ms
                              + Unwrap(policy.auto_terminate_after_exited_ms))
    => target = "Terminated"

\* C8 witness: the owner had asked for Running, the snapshot's age equals the
\* threshold, and target is now Terminated.
C8_Witness ==
    /\ op = "reconcile"
    /\ caller_target = "Running"
    /\ policy.auto_terminate_after_exited_ms = Some(1)
    /\ IsSome(last_remote)
    /\ Unwrap(last_remote).desired_status = "Exited"
    /\ last_updated_ms = Unwrap(last_remote).observed_at_ms + 1
    /\ target = "Terminated"

\* C9: the call in which the override condition holds already returns
\* TerminatePod for the current pod_id, not the action of the earlier target.
C9_OverrideActsInSameCall ==
    [][(/\ op' = "reconcile"
        /\ IsSome(policy.auto_terminate_after_exited_ms)
        /\ IsSome(last_remote')
        /\ Unwrap(last_remote').desired_status = "Exited"
        /\ Elapsed(last_updated_ms', Unwrap(last_remote').observed_at_ms)
              >= Unwrap(policy.auto_terminate_after_exited_ms)
        /\ IsSome(pod_id'))
       => (target' = "Terminated" /\ action' = TerminatePod(Unwrap(pod_id')))]_vars

\* C9 witness: the specification's scenario, scaled (snapshot Exited observed
\* at 0, threshold 1, target Running, reconcile(Unknown, 2)).
C9_Witness ==
    /\ op = "reconcile"
    /\ observation = Unknown
    /\ caller_target = "Running"
    /\ policy.auto_terminate_after_exited_ms = Some(1)
    /\ IsSome(last_remote)
    /\ Unwrap(last_remote).desired_status = "Exited"
    /\ Unwrap(last_remote).observed_at_ms = 0
    /\ last_updated_ms = 2
    /\ target = "Terminated"
    /\ IsSome(pod_id)
    /\ action = TerminatePod(Unwrap(pod_id))

\* The rows of the decision table that match the triple reconcile decided on.
MatchingRows == {i \in TableRows : RowMatches(i, target, remote_status_opt, pod_id)}

\* C11 (as claimed): the triple (target, effective status, id) reconcile
\* decides on matches exactly one row of the decision table.
C11_ExactlyOneRowMatches ==
    op = "reconcile" => Cardinality(MatchingRows) = 1

\* C11 (amended): the triple matches at least one row.  When the id is present
\* or no status is known it matches exactly one row, whose action is returned.
\* When a status is known and the id is absent the defensive row 5 matches as
\* well as the row of the (target, status) pair, the two may name different
\* actions, and the action returned is that of the lowest matching row.
C11_OneRowUnlessStatusWithoutId ==
    op = "reconcile" =>
        /\ MatchingRows # {}
        /\ (IsSome(pod_id) \/ remote_status_opt = None) =>
               /\ Cardinality(MatchingRows) = 1
               /\ \A i \in MatchingRows :
                      action = RowAction(i, pod_id, pod_name, policy.reuse_exited_pod)
        /\ (pod_id = None /\ IsSome(remote_status_opt)) =>
               /\ 5 \in MatchingRows
               /\ MatchingRows \subseteq 1..5
               /\ \A i \in MatchingRows :
                      (\A j \in MatchingRows : i <= j) =>
                          action = RowAction(i, pod_id, pod_name, policy.reuse_exited_pod)

\* C11 witness: a Running pod whose id is not recorded, target Running: the
\* Noop row 2 and the CreatePod row 5 both match, and reconcile returned Noop.
C11_Witness ==
    /\ op = "reconcile"
    /\ MatchingRows = {2, 5}
    /\ action = Noop

\* C12: from new(), last_remote starts as None and every call either leaves it
\* as it is, clears it, or is a reconcile(Found(s)) that stores s whole (id,
\* name, desired_status and observed_at_ms together), so last_remote is always
\* None or one delivered snapshot; right after reconcile(Found(s)) pod_id is
\* Some(s.id) and last_remote is Some(s).
C12_SnapshotIsOneDeliveredWhole ==
    /\ last_remote = None
    /\ [][/\ \/ last_remote' = last_remote
              \/ last_remote' = None
              \/ /\ op' = "reconcile"
                 /\ observation'.kind = "Found"
                 /\ last_remote' = Some(observation'.snapshot)
           /\ (op' = "reconcile" /\ observation'.kind = "Found") =>
                  /\ pod_id' = Some(observation'.snapshot.id)
                  /\ last_remote' = Some(observation'.snapshot)]_vars

\* C12 witness: reconcile has assimilated a Found observation of pod p2 taken
\* at time 1, and the state holds that snapshot and its id.
C12_Witness ==
    /\ op = "reconcile"
    /\ observation.kind = "Found"
    /\ observation.snapshot.observed_at_ms = 1
    /\ observation.snapshot.id = <<"p", "2">>
    /\ last_remote = Some(observation.snapshot)
    /\ pod_id = Some(observation.snapshot.id)

\* C13 (as claimed): after apply_terminated under target Terminated, with no
\* set_target since, every reconcile with NotFound or Unknown returns Noop.
C13_AbsentOrUnknownIsNoop ==
    (op = "reconcile" /\ observation.kind \in {"NotFound", "Unknown"}) =>
        action = Noop

\* C13 (amended): after apply_terminated under target Terminated, with no
\* set_target since, the target stays Terminated and no reconcile returns
\* CreatePod: Found with status Running or Exited returns TerminatePod for the
\* snapshot's id, Found with status Terminated and NotFound return Noop, and
\* Unknown returns Noop unless a Running or Exited snapshot assimilated since
\* is still stored, when it returns TerminatePod for the held id.
C13_TerminatedNeverCreates ==
    op = "reconcile" =>
        /\ target = "Terminated"
        /\ action.kind # "CreatePod"
        /\ (observation.kind = "Found"
               /\ observation.snapshot.desired_status \in {"Running", "Exited"}) =>
               action = TerminatePod(observation.snapshot.id)
        /\ (observation.kind = "Found"
               /\ observation.snapshot.desired_status = "Terminated") =>
               action = Noop
        /\ observation.kind = "NotFound" => action = Noop
        /\ observation.kind = "Unknown" =>
               \/ action = Noop
               \/ /\ IsSome(last_remote)
                  /\ Unwrap(last_remote).desired_status \in {"Running", "Exited"}
                  /\ IsSome(pod_id)
                  /\ action = TerminatePod(Unwrap(pod_id))

\* C13 witness: after apply_terminated a Running pod was found, and the next
\* probe failed: reconcile(Unknown) returned TerminatePod for the held id.
C13_Witness ==
    /\ op = "reconcile"
    /\ observation.kind = "Unknown"
    /\ target = "Terminated"
    /\ IsSome(last_remote)
    /\ Unwrap(last_remote).desired_status = "Running"
    /\ action = TerminatePod(Unwrap(pod_id))

\* A name that is empty or made of blanks only.
AllBlank(chars) == \A i \in 1..Len(chars) : chars[i] = " "

\* What save and load accept, stated on the record's fields.
Acceptable(st) == st.format_version = STATE_FORMAT_VERSION /\ ~AllBlank(st.pod_name)

\* save has just returned Ok.
SaveReturnedOk == store_op = "save" /\ save_pc = "idle" /\ store_result.kind = "Ok"

\* C14: when save(s) has returned Ok for a state s with the current
\* format_version and a name that is not blank, the load that follows returns
\* Some(s') with s' equal to s in every field: pod_id, the nested snapshot,
\* target, last_updated_ms and policy included.
C14_SaveThenLoadReturnsTheState ==
    [][(SaveReturnedOk /\ store_op' = "load") =>
           /\ Acceptable(Unwrap(saving))
           /\ store_result' = Ok(Some(Unwrap(saving)))]_vars

\* C14 witness: a state with an id, a snapshot and a policy of the owner's was
\* saved over another record, and load returned it.
C14_Witness ==
    /\ store_op = "load"
    /\ ~interrupted
    /\ IsSome(saving)
    /\ IsSome(Unwrap(saving).last_remote)
    /\ Unwrap(saving).policy # StatePolicyDefault
    /\ before # files[Path]
    /\ IsSome(before)
    /\ store_result = Ok(saving)

\* C15 (as claimed): when save returns an error, the record that was at the
\* canonical path when save was called is still there, unchanged.
C15_FailedSaveKeepsPreviousRecord ==
    (store_op = "save" /\ save_pc = "idle" /\ store_result.kind = "Err") =>
        files[Path] = before

\* C16: load returns Ok(None) exactly when no file is at the path; for a file
\* holding a complete record it returns InvalidState when format_version is
\* not the current one or pod_name is blank, and Ok(Some(record)) otherwise;
\* load leaves the files as they are.
C16_LoadValidatesAndNeverRepairs ==
    /\ [](store_op = "load" =>
             /\ store_result = Ok(None) <=> files[Path] = None
             /\ \A st \in SaveArguments :
                    files[Path] = Some(to_vec_pretty(st)) =>
                        store_result = IF Acceptable(st) THEN Ok(Some(st))
                                       ELSE InvalidState)
    /\ [][store_op' = "load" => files' = files]_vars

\* C16 witness: the file holds a record whose pod_name is one blank; load
\* returned InvalidState and the file is still that record.
C16_Witness ==
    /\ store_op = "load"
    /\ store_result = InvalidState
    /\ \E st \in SaveArguments :
          /\ st.pod_name = <<" ">>
          /\ files[Path] = Some(to_vec_pretty(st))

\* C17: save called with a state whose format_version is not the current one
\* or whose pod_name is blank returns InvalidState at once: the call is over
\* and neither the canonical file nor the temporary file has changed.
C17_InvalidSaveTouchesNothing ==
    [][(save_pc = "idle" /\ store_op' = "save" /\ ~Acceptable(Unwrap(saving'))) =>
           /\ store_result' = InvalidState
           /\ save_pc' = "idle"
           /\ files' = files]_vars

\* C17 witness: save was called with a blank name while a record was stored;
\* it returned InvalidState and the record is as it was.
C17_Witness ==
    /\ store_op = "save"
    /\ store_result = InvalidState
    /\ IsSome(saving)
    /\ Unwrap(saving).pod_name = <<" ">>
    /\ IsSome(before)
    /\ files[Path] = before
    /\ files[tmp_name(Path)] = None

\* C18 (as claimed): last_updated_ms never decreases across set_target,
\* reconcile, apply_created and apply_terminated calls, whatever now_ms the
\* caller passes.
C18_LastUpdatedNeverDecreases ==
    [][last_updated_ms' >= last_updated_ms]_vars

\* The values of PlannedAction.
PlannedAction ==
    {Noop} \cup {CreatePod(n) : n \in Names}
           \cup {StartPod(i) : i \in PodIds}
           \cup {StopPod(i) : i \in PodIds}
           \cup {TerminatePod(i) : i \in PodIds}

\* reconcile was called with a now_ms smaller than the observed_at_ms of the
\* snapshot it holds after assimilating the observation.
NowBeforeObservedAt ==
    /\ op = "reconcile"
    /\ IsSome(last_remote)
    /\ last_updated_ms < Unwrap(last_remote).observed_at_ms

\* C19: every reconcile call, whatever the state, the observation and now_ms,
\* returns one PlannedAction; when now_ms is smaller than the snapshot's
\* observed_at_ms the elapsed time counts as 0, so the call forces the target
\* to Terminated exactly when the snapshot is Exited and the threshold is
\* Some(0), and leaves the target alone otherwise.
C19_OneActionAndNoWraparound ==
    /\ [](op = "reconcile" => action \in PlannedAction)
    /\ [][NowBeforeObservedAt' =>
             IF /\ policy.auto_terminate_after_exited_ms = Some(0)
                /\ Unwrap(last_remote').desired_status = "Exited"
             THEN target' = "Terminated"
             ELSE target' = target]_vars

\* C19 witness: reconcile at now_ms 0 holds an Exited snapshot observed at 2
\* under a threshold of 1: the target is still Running and the pod is started,
\* not terminated.
C19_Witness ==
    /\ NowBeforeObservedAt
    /\ last_updated_ms = 0
    /\ Unwrap(last_remote).observed_at_ms = 2
    /\ Unwrap(last_remote).desired_status = "Exited"
    /\ policy.auto_terminate_after_exited_ms = Some(1)
    /\ target = "Running"
    /\ action.kind \in {"StartPod", "CreatePod"}

\* The effective status reconcile decided on is terminal.
EffectiveStatusTerminal ==
    /\ op = "reconcile"
    /\ IsSome(remote_status_opt)
    /\ is_terminal(Unwrap(remote_status_opt))

\* C20: when the effective status is Terminated, reconcile returns Noop if the
\* target is Terminated and CreatePod if the target is Running or Exited; it
\* never returns StartPod, StopPod or TerminatePod.
C20_TerminatedPodIsNeverActedOn ==
    EffectiveStatusTerminal =>
        /\ target = "Terminated" => action = Noop
        /\ target \in {"Running", "Exited"} => action = CreatePod(pod_name)
        /\ action.kind \notin {"StartPod", "StopPod", "TerminatePod"}

\* C20 witness: the pod whose id is held was found Terminated while the target
\* is Exited, and reconcile returned CreatePod.
C20_Witness ==
    /\ EffectiveStatusTerminal
    /\ observation.kind = "Found"
    /\ IsSome(pod_id)
    /\ target = "Exited"
    /\ action = CreatePod(pod_name)

\* Both processes have returned from save.
BothReturned == \A w \in Writers : w_pc[w] = "returned"

\* C21 (as claimed): when two save calls on the same path have interleaved
\* and both have returned, the canonical file holds the complete record of
\* one of the two writers.
C21_LastWriterWins ==
    BothReturned =>
        /\ IsSome(dir[Path])
        /\ \E w \in Writers : inodes[Unwrap(dir[Path])] = to_vec_pretty(WriterState(w))

\* The port number a required-port specification of the model names, and the
\* container port a port-mapping key of the model names (None: it names none).
NumberOfSpec(spec) ==
    IF spec = Spec22Tcp THEN Some(22) ELSE IF spec = Spec8888Http THEN Some(8888) ELSE None
NumberOfKey(key) ==
    IF key = Key22 THEN Some(22) ELSE IF key = Key8888 THEN Some(8888) ELSE None

\* The pod a fetch delivered, when the exchange is a successful response
\* whose body is a PodDetails document.
FetchedPod == exchange.body[1]
FetchDeliveredPod ==
    /\ exchange.kind = "response"
    /\ exchange.status \in 200..299
    /\ Len(exchange.body) = 1

\* C22: wait_for_ready returns a PodLease only out of a fetch that delivered a
\* pod whose status is RUNNING, whose public IP is present and not empty and
\* whose port mappings hold the port number of every required port
\* specification; the lease carries that IP, those mappings (by container
\* port number) and the id of the fetched pod.
C22_LeaseOnlyFromReadyFetch ==
    wait_result.kind = "Ok" =>
        /\ FetchDeliveredPod
        /\ FetchedPod.desiredStatus = Some(RUNNING)
        /\ IsSome(FetchedPod.publicIp)
        /\ Len(Unwrap(FetchedPod.publicIp)) > 0
        /\ IsSome(FetchedPod.portMappings)
        /\ \A i \in 1..Len(required_ports) :
              /\ IsSome(NumberOfSpec(required_ports[i]))
              /\ \E key \in DOMAIN Unwrap(FetchedPod.portMappings) :
                     NumberOfKey(key) = NumberOfSpec(required_ports[i])
        /\ wait_result.value.id = FetchedPod.id
        /\ wait_result.value.public_ip = Unwrap(FetchedPod.publicIp)
        /\ DOMAIN wait_result.value.port_mappings =
              {Unwrap(NumberOfKey(key)) : key \in {k \in DOMAIN Unwrap(FetchedPod.portMappings) :
                                                      IsSome(NumberOfKey(k))}}
        /\ \A key \in DOMAIN Unwrap(FetchedPod.portMappings) :
              IsSome(NumberOfKey(key)) =>
                  wait_result.value.port_mappings[Unwrap(NumberOfKey(key))]
                      = Unwrap(FetchedPod.portMappings)[key]

\* C22 witness: after at least one sleep, a fetch for p1 delivered pod p2
\* RUNNING with an address and both required ports mapped, and the lease
\* returned is for p2.
C22_Witness ==
    /\ wait_result.kind = "Ok"
    /\ began_at > 0
    /\ Len(required_ports) = 2
    /\ wait_pod_id = <<"p", "1">>
    /\ wait_result.value.id = <<"p", "2">>
    /\ wait_result.value.port_mappings[8888] = 8

\* The exchange is a response with status 404.
FetchReportedNotFound == exchange.kind = "response" /\ exchange.status = 404

\* C23: the fetch of wait_for_ready that is answered 404 is its last step:
\* the call returns PodNotFound for the pod id it was given, and nothing
\* (no sleep, no fetch) follows the return.
C23_NotFoundEndsTheWait ==
    /\ [][(wait_pc = "fetch" /\ FetchReportedNotFound') =>
              /\ wait_pc' = "returned"
              /\ wait_result' = PodNotFound(wait_pod_id)]_vars
    /\ [][wait_pc = "returned" => UNCHANGED <<wait_pc, elapsed, exchange, wait_result>>]_vars

\* C23 witness: the pod was fetched and found not ready, the wait slept, and
\* the next fetch was answered 404: PodNotFound was returned.
C23_Witness ==
    /\ FetchReportedNotFound
    /\ began_at > 0
    /\ wait_pc = "returned"
    /\ wait_result = PodNotFound(wait_pod_id)

\* C24 (as claimed): a wait_for_ready call in which no fetch found the pod
\* ready and none reported it not found ends with the Timeout error.
C24_EndsByLeaseNotFoundOrTimeout ==
    (wait_pc = "returned" /\ wait_result.kind # "Ok" /\ ~FetchReportedNotFound) =>
        wait_result = Timeout

\* C25 (as claimed): after a fetch that neither reported not-found nor found
\* the pod ready (a transport error and an error status other than 404
\* included), wait_for_ready sleeps poll_interval and starts another
\* iteration.
C25_OnlyNotFoundFailsAtOnce ==
    [][(wait_pc = "fetch" /\ ~FetchReportedNotFound' /\ wait_result'.kind # "Ok") =>
           wait_pc' = "sleep"]_vars

\* The requests of this call that asked for a pod to be created or started.
CreateOrStart == {i \in 1..Len(requests) : requests[i].verb \in {"create", "start"}}

\* wait_for_ready has been called in this call of ensure_ready_pod.
PollerStarted == wait_pc # "idle"

\* C26 (as claimed): in ensure_ready_pod wait_for_ready is started only after
\* a create or a start request of that call was answered with success, and
\* never once a create or a start request has failed.
C26_PollerOnlyAfterCreateOrStart ==
    /\ PollerStarted => \E i \in CreateOrStart : requests[i].outcome = "ok"
    /\ (\E i \in CreateOrStart : requests[i].outcome = "failed") => ~PollerStarted

\* C26 (amended): wait_for_ready is started only after a create or a start
\* request of that call was answered with success, or straight after the
\* listing, no further request sent, when the mode is Reuse and the pod
\* found is compatible and not EXITED; it is never started once a create or
\* a start request has failed.
C26_PollerAfterCreateStartOrPlainReuse ==
    /\ [](PollerStarted =>
             \/ \E i \in CreateOrStart : requests[i].outcome = "ok"
             \/ /\ reconcile_mode = Reuse
                /\ Len(requests) = 1
                /\ requests[1].outcome = "ok")
    /\ []((\E i \in CreateOrStart : requests[i].outcome = "failed") => ~PollerStarted)
    /\ [][(ensure_pc = "listing" /\ PollerStarted') =>
              /\ IsSome(existing')
              /\ Unwrap(existing').imageName = Some(image_name)
              /\ Unwrap(existing').desiredStatus \notin {Some(TERMINATED), Some(EXITED)}]_vars

\* C26 witness: a compatible pod that was not stopped was reused, and the
\* poller, started with nothing created or started, came back with a lease.
C26_Witness ==
    /\ ensure_pc = "returned"
    /\ ensure_result.kind = "Ok"
    /\ CreateOrStart = {}

\* The observation says that the pod is gone: NotFound, or Found with the
\* status Terminated.
ObservedGone(obs) ==
    \/ obs.kind = "NotFound"
    \/ obs.kind = "Found" /\ obs.snapshot.desired_status = "Terminated"

\* C27: whatever the state held and whatever the policy, a reconcile called
\* with target Running or Exited and an observation of NotFound or of
\* Found(Terminated) returns CreatePod with the state's pod_name, and the
\* policy leaves target as it was.
C27_GonePodIsCreatedAgain ==
    [][(op' = "reconcile" /\ target \in {"Running", "Exited"} /\ ObservedGone(observation')) =>
           /\ action' = CreatePod(pod_name)
           /\ target' = target]_vars

\* C27 witness: auto-terminate was configured and its threshold had elapsed
\* since the observation, the pod was found Terminated under the target
\* Exited, and reconcile returned CreatePod.
C27_Witness ==
    /\ op = "reconcile"
    /\ observation.kind = "Found"
    /\ observation.snapshot.desired_status = "Terminated"
    /\ policy.auto_terminate_after_exited_ms = Some(1)
    /\ last_updated_ms > observation.snapshot.observed_at_ms
    /\ target = "Exited"
    /\ action = CreatePod(pod_name)

\* The places of a pod list whose pod has the configured name.
NamedPods(l) == {i \in 1..Len(l) : l[i].name = Some(cfg_pod_name)}

\* The first of them.
FirstNamed(l) == l[CHOOSE i \in NamedPods(l) : \A j \in NamedPods(l) : i <= j]

\* The pod has the configured image and is not TERMINATED.
Reusable(pod) ==
    /\ pod.imageName = Some(image_name)
    /\ pod.desiredStatus # Some(TERMINATED)

\* C28 (as claimed): in Reuse mode, when the listing holds a pod of the
\* configured name with the configured image and a status other than
\* TERMINATED, ensure_ready_pod goes on with neither a create nor a terminate
\* request.
C28_ReusablePodIsReused ==
    [][(/\ ensure_pc = "listing"
        /\ reconcile_mode = Reuse
        /\ \E i \in NamedPods(listing') : Reusable(listing'[i]))
       => requests'[Len(requests')].verb \notin {"create", "terminate"}]_vars

\* The requests of this call that asked for a pod to be terminated, and those
\* that asked for one to be created.
Terminates == {k \in 1..Len(requests) : requests[k].verb = "terminate"}
Creates == {k \in 1..Len(requests) : requests[k].verb = "create"}

\* C29: in Recreate mode, when the listing holds a pod of the configured
\* name, ensure_ready_pod sends the terminate request for that pod (the first
\* of that name) next; every request sent before the create request has been
\* answered when the create request is sent; at most one create request is
\* sent; and the readiness wait is on the id of the pod created, not on the
\* terminated one.
C29_RecreateTerminatesThenCreates ==
    /\ [][(ensure_pc = "listing" /\ reconcile_mode = Recreate /\ NamedPods(listing') # {}) =>
              /\ Len(requests') = 2
              /\ requests'[2] = Request("terminate", Some(FirstNamed(listing').id))]_vars
    /\ [](\A c \in Creates : \A k \in 1..(c - 1) : requests[k].outcome # "pending")
    /\ [](Cardinality(Creates) <= 1)
    /\ []((reconcile_mode = Recreate /\ PollerStarted /\ Terminates # {}) =>
             /\ \E c \in Creates :
                   /\ requests[c].outcome = "ok"
                   /\ wait_pod_id = Unwrap(requests[c].id)
             /\ \A k \in Terminates : wait_pod_id # Unwrap(requests[k].id))

\* C29 witness: the terminate request failed, the create request that
\* followed it succeeded, and the wait on the new pod came back with a lease.
C29_Witness ==
    /\ reconcile_mode = Recreate
    /\ Len(requests) = 3
    /\ requests[2].verb = "terminate"
    /\ requests[2].outcome = "failed"
    /\ requests[3].verb = "create"
    /\ requests[3].outcome = "ok"
    /\ ensure_pc = "returned"
    /\ ensure_result.kind = "Ok"
    /\ wait_pod_id = Unwrap(requests[3].id)

\* The last answer asks for another attempt: a retryable status, or a
\* retryable transport error.
RetryableAnswer ==
    \/ answer.kind = "error" /\ answer.is \in {"timeout", "connect", "request"}
    \/ answer.kind = "response" /\ answer.status \in {408, 409, 425, 429, 500, 502, 503, 504}

\* C30 (as claimed): post_with_retry and execute send at most retry_max + 1
\* requests, whatever the answers are (so they end); they go on to another
\* attempt only after a retryable status or a retryable transport error; and
\* a success or a status that is not retryable ends the loop with that
\* request.
C30_RetryLoopsAreBounded ==
    /\ sent <= retry_max + 1
    /\ retry_pc = "sleep" => RetryableAnswer
    /\ (retry_pc = "send" /\ sent > 0) => RetryableAnswer
    /\ (answer.kind = "response" /\ answer.status \notin {408, 409, 425, 429, 500, 502, 503, 504})
          => retry_pc = "returned"

\* The cap on the delays of the loop that is running, in milliseconds.
DelayCap == IF retry_loop = "post_with_retry" THEN 5000 ELSE 10000

\* C31 (as claimed): every delay slept between two attempts is at most 5
\* seconds in post_with_retry and 10 seconds in execute, whatever
\* retry_backoff_ms is configured, and each delay is the double of the one
\* before it, or the cap once the double exceeds the cap.
C31_DelaysDoubleUpToTheCap ==
    /\ [](IsSome(delay) => Unwrap(delay) <= DelayCap)
    /\ [][(retry_pc = "sleep" /\ IsSome(delay)) =>
              delay' = Some(IF 2 * Unwrap(delay) > DelayCap
                            THEN DelayCap
                            ELSE 2 * Unwrap(delay))]_vars

\* C32: from new(), through reconcile, apply_created, apply_terminated and
\* set_target, a stored snapshot comes with a stored id; hence a reconcile
\* that knows a status knows an id, and the row (_, Some(_), None) is not the
\* one that decides.
C32_SnapshotImpliesPodId ==
    /\ IsSome(last_remote) => IsSome(pod_id)
    /\ (op = "reconcile" /\ IsSome(remote_status_opt)) => IsSome(pod_id)

\* C32 witness: a snapshot was stored, NotFound-free calls followed, and a
\* reconcile(Unknown) took its status from the snapshot with the id at hand.
C32_Witness ==
    /\ op = "reconcile"
    /\ observation = Unknown
    /\ IsSome(remote_status_opt)
    /\ IsSome(last_remote)
    /\ IsSome(pod_id)

\* C33: from new(), a reconcile that ends with target Terminated, whether
\* the caller set it or the policy forced it, returns Noop or TerminatePod.
C33_TerminatedTargetNeverBuilds ==
    (op = "reconcile" /\ target = "Terminated") =>
        action.kind \in {"Noop", "TerminatePod"}

\* C33 witness: the caller had asked for Running, the policy forced
\* Terminated, and the call returned TerminatePod.
C33_Witness ==
    /\ op = "reconcile"
    /\ caller_target = "Running"
    /\ target = "Terminated"
    /\ action.kind = "TerminatePod"

\* C34 (as claimed): from new(), a stored id and a stored snapshot name the
\* same pod, and the id in a StartPod, StopPod or TerminatePod that reconcile
\* returns is the id of the snapshot its status was taken from.
C34_PodIdIsTheSnapshotsId ==
    /\ (IsSome(pod_id) /\ IsSome(last_remote)) => Unwrap(pod_id) = Unwrap(last_remote).id
    /\ (/\ op = "reconcile"
        /\ action.kind \in {"StartPod", "StopPod", "TerminatePod"}
        /\ IsSome(last_remote))
       => action.id = Unwrap(last_remote).id

\* The actions that name a pod.
NamesAPod(a) == a.kind \in {"StartPod", "StopPod", "TerminatePod"}

\* C35: the action reconcile returns is built from the state as the call
\* leaves it: CreatePod carries pod_name, and StartPod, StopPod and
\* TerminatePod carry pod_id; after a Found observation that is the
\* snapshot's id, also when the state held another id before the call.
C35_PayloadIsTheStateAtReturn ==
    /\ []((op = "reconcile" /\ action.kind = "CreatePod") => action.name = pod_name)
    /\ []((op = "reconcile" /\ NamesAPod(action)) => pod_id = Some(action.id))
    /\ [][(/\ op' = "reconcile"
           /\ observation'.kind = "Found"
           /\ NamesAPod(action')
           /\ IsSome(pod_id)
           /\ pod_id # Some(observation'.snapshot.id))
          => action'.id = observation'.snapshot.id]_vars

\* C35 witness: the pod was found Exited under the target Running with reuse
\* allowed, and StartPod names the snapshot's id, which is the state's id.
C35_Witness ==
    /\ op = "reconcile"
    /\ observation.kind = "Found"
    /\ observation.snapshot.desired_status = "Exited"
    /\ policy.reuse_exited_pod
    /\ action = StartPod(observation.snapshot.id)
    /\ pod_id = Some(observation.snapshot.id)

\* The policy has forced target to Terminated: the owner had asked for
\* something else.
ForcedTerminated == target = "Terminated" /\ caller_target # "Terminated"

\* C36: once the policy has forced target to Terminated, every call other
\* than set_target leaves it Terminated, and no reconcile made while it is
\* so returns CreatePod.
C36_ForcedTerminatedStays ==
    /\ [][(ForcedTerminated /\ op' # "set_target") => ForcedTerminated']_vars
    /\ []((ForcedTerminated /\ op = "reconcile") => action.kind \in {"Noop", "TerminatePod"})

\* C36 witness: the policy forced Terminated, the pod was terminated
\* (apply_terminated cleared the id), and a later reconcile found nothing to
\* do.
C36_Witness ==
    /\ ForcedTerminated
    /\ op = "reconcile"
    /\ observation = NotFound
    /\ pod_id = None
    /\ action = Noop

\* The auto-terminate condition, on the state as a call leaves it: a
\* threshold is configured, the stored snapshot is Exited, and its age at
\* last_updated_ms (the call's now_ms) has reached the threshold.
DueAtReturn ==
    /\ IsSome(policy.auto_terminate_after_exited_ms)
    /\ IsSome(last_remote)
    /\ Unwrap(last_remote).desired_status = "Exited"
    /\ Elapsed(last_updated_ms, Unwrap(last_remote).observed_at_ms)
          >= Unwrap(policy.auto_terminate_after_exited_ms)

\* C37: reconcile leaves format_version, pod_name and policy as they were;
\* it changes target only to Terminated and only in a call in which the
\* auto-terminate condition holds; in every other call target is unchanged.
C37_ReconcileFrame ==
    [][op' = "reconcile" =>
          /\ UNCHANGED <<format_version, pod_name, policy>>
          /\ target' # target => (target' = "Terminated" /\ DueAtReturn')
          /\ ~DueAtReturn' => target' = target]_vars

\* C37 witness: under the target Exited a reconcile(Unknown) found the stored
\* Exited snapshot old enough, and left target Terminated.
C37_Witness ==
    /\ op = "reconcile"
    /\ observation = Unknown
    /\ caller_target = "Exited"
    /\ DueAtReturn
    /\ target = "Terminated"

\* C38: apply_created changes pod_id and last_updated_ms alone (the stored
\* snapshot stays); apply_terminated changes pod_id and last_remote, both to
\* None, and last_updated_ms alone; set_target changes target and
\* last_updated_ms alone.
C38_ApplyAndSetTargetFrames ==
    /\ [][op' = "apply_created" =>
              /\ IsSome(pod_id')
              /\ UNCHANGED <<format_version, pod_name, target, last_remote, policy>>]_vars
    /\ [][op' = "apply_terminated" =>
              /\ pod_id' = None
              /\ last_remote' = None
              /\ UNCHANGED <<format_version, pod_name, target, policy>>]_vars
    /\ [][op' = "set_target" =>
              UNCHANGED <<format_version, pod_name, pod_id, last_remote, policy>>]_vars

\* C38 witness: apply_created recorded an id while the snapshot of another
\* pod was stored, and the snapshot is still there.
C38_Witness ==
    /\ op = "apply_created"
    /\ IsSome(last_remote)
    /\ pod_id # Some(Unwrap(last_remote).id)

\* The places of a pod list whose pod has the configured name and is not
\* TERMINATED.
LiveNamedPods(l) == {i \in NamedPods(l) : l[i].desiredStatus # Some(TERMINATED)}

\* C39 (as claimed): ensure_ready_pod sends its create request only when no
\* pod of the configured name that is not TERMINATED is left: straight after
\* the listing only if the listing holds none, and after the terminate
\* request only if that request succeeded and the pod it named was the only
\* such pod listed.
C39_CreateOnlyWhenNoLivePodIsLeft ==
    /\ [][(ensure_pc = "listing" /\ ensure_pc' = "creating") =>
              LiveNamedPods(listing') = {}]_vars
    /\ [][(ensure_pc = "terminating" /\ ensure_pc' = "creating") =>
              /\ requests'[2].outcome = "ok"
              /\ \A i \in LiveNamedPods(listing) :
                    Some(listing[i].id) = requests[2].id]_vars

====
